---- MODULE Spec2Model ----
(***************************************************************************)
(* A model of the WGSL expression-test engine of the WebGPU CTS:           *)
(*   - the layout model (sizeAndAlignmentOf, strideOf, structLayout),      *)
(*   - the value codec (copyTo / read of scalar, vector, matrix, array),   *)
(*   - packScalarsToVector,                                                *)
(*   - the batch scheduler of run() (admission gate, pipeline cache,       *)
(*     asynchronous pipeline builds and device completions).               *)
(* Eight specifications share the module: Spec (the scheduler), SpecTypes  *)
(* (the interning of type descriptors), and SpecLayout, SpecCodec,         *)
(* SpecPack, SpecCompare, SpecBuilder and SpecCheck (the pure functions,   *)
(* applied to inputs drawn from bounded sets).                             *)
(***************************************************************************)
EXTENDS Integers, Sequences, FiniteSets, TLC

VARIABLES
    \* ---- scheduler: run() of expression.ts
    cfg,                          \* the arguments of run() and the device limits
    pc,                           \* where the body of run() stands
    i,                            \* the loop index of run() (offset into cases)
    casesPerBatch,                \* const casesPerBatch
    batchesInFlight,              \* let batchesInFlight
    resolvePromiseBlockingBatch,  \* TRUE when the resolve callback is installed
    pendingBatches,               \* one record per processBatch() call, in order
    microtasks,                   \* the promise-job queue of the JS engine (FIFO)
    pipelineCache,                \* keys of the Map pipelineCache
    device,                       \* what the device collaborator has been asked
    usageError,                   \* a usage error has been thrown
    \* ---- layout model
    lay,                          \* input and result of a layout computation
    \* ---- value codec
    codec,                        \* value, buffer, working data, decoded value
    \* ---- packScalarsToVector
    pack,                         \* input and result of packScalarsToVector
    \* ---- compare() and the comparators
    cmp,                          \* got, expectation and the Comparison
    \* ---- shader builders
    build,                        \* arguments and outcome of a shader builder
    \* ---- type descriptors
    types,                        \* the instances maps and the descriptors handed out
    \* ---- the check of a batch's output
    check                         \* cases, output data and the outcome of the check

schedVars == <<cfg, pc, i, casesPerBatch, batchesInFlight,
               resolvePromiseBlockingBatch, pendingBatches, microtasks,
               pipelineCache, device, usageError>>
vars == <<cfg, pc, i, casesPerBatch, batchesInFlight,
          resolvePromiseBlockingBatch, pendingBatches, microtasks,
          pipelineCache, device, usageError, lay, codec, pack, cmp, build, types, check>>

Idle == [phase |-> "idle"]

(***************************************************************************)
(* Bounds of the model.                                                    *)
(***************************************************************************)
MaxCount == 2          \* largest array element count
MaxMembers == 2        \* longest member list given to structLayout
MaxPackCases == 5      \* longest case list given to packScalarsToVector
MaxCases == 7          \* longest case list given to run()
MaxChildren == 2       \* most expectations given to anyOf
MaxDescriptors == 3    \* most descriptor instances allocated
MaxCheckCases == 2     \* most cases of a batch whose output is checked

(***************************************************************************)
(* Types (conversion.ts).  A type is a record with a tag.                  *)
(***************************************************************************)
ScalarKinds ==
    {"abstract-float", "f64", "f32", "f16", "u32", "u16", "u8",
     "abstract-int", "i32", "i16", "i8", "bool"}

InputSources == {"const", "uniform", "storage_r", "storage_rw"}

\* the sizes given to the ScalarType constructor
KindSize(kind) ==
    CASE kind \in {"abstract-int", "abstract-float", "f64"} -> 8
      [] kind \in {"i32", "u32", "f32", "bool"} -> 4
      [] kind \in {"i16", "u16", "f16"} -> 2
      [] kind \in {"i8", "u8"} -> 1

ScalarT(kind) == [tag |-> "scalar", kind |-> kind]
VecT(width, kind) == [tag |-> "vec", width |-> width, kind |-> kind]
MatT(cols, rows, kind) == [tag |-> "mat", cols |-> cols, rows |-> rows, kind |-> kind]
ArrayT(count, elem) == [tag |-> "array", count |-> count, elem |-> elem]

ScalarTypes == {ScalarT(k) : k \in ScalarKinds}
VectorTypes == {VecT(w, k) : w \in 2..4, k \in ScalarKinds}
\* the MatrixType constructor accepts f32, f16 and abstract-float elements only
MatrixKinds == {"f32", "f16", "abstract-float"}
MatrixTypes == {MatT(c, r, k) : c \in 2..4, r \in 2..4, k \in MatrixKinds}
PlainTypes == ScalarTypes \cup VectorTypes \cup MatrixTypes
ArrayTypes == {ArrayT(n, e) : n \in 1..MaxCount, e \in PlainTypes}
Types == PlainTypes \cup ArrayTypes

\* align(n, alignment) of util/math.js: n rounded up to a multiple of alignment
Align(n, alignment) == ((n + alignment - 1) \div alignment) * alignment

Max(a, b) == IF a >= b THEN a ELSE b
Min(a, b) == IF a <= b THEN a ELSE b

\* VectorType.alignmentOf
VectorAlignmentOf(width, kind) == KindSize(kind) * (IF width = 3 THEN 4 ELSE width)

\* ArrayType.stride, Type.size and Type.alignment (the getters of conversion.ts)
RECURSIVE TypeSize(_), TypeAlignment(_)
ArrayStride(ty) == Align(TypeSize(ty.elem), TypeAlignment(ty.elem))
TypeSize(ty) ==
    CASE ty.tag = "scalar" -> KindSize(ty.kind)
      [] ty.tag = "vec" -> KindSize(ty.kind) * ty.width
      [] ty.tag = "mat" -> VectorAlignmentOf(ty.rows, ty.kind) * ty.cols
      [] ty.tag = "array" -> ArrayStride(ty) * ty.count
TypeAlignment(ty) ==
    CASE ty.tag = "scalar" -> KindSize(ty.kind)
      [] ty.tag = "vec" -> VectorAlignmentOf(ty.width, ty.kind)
      [] ty.tag = "mat" -> VectorAlignmentOf(ty.rows, ty.kind)
      [] ty.tag = "array" -> TypeAlignment(ty.elem)

(***************************************************************************)
(* The layout model of expression.ts.                                      *)
(***************************************************************************)
RECURSIVE sizeAndAlignmentOf(_, _)
sizeAndAlignmentOf(ty, source) ==
    CASE ty.tag = "scalar" ->
            IF ty.kind \in {"abstract-float", "abstract-int"}
            THEN [size |-> 8, alignment |-> 8]
            ELSE [size |-> KindSize(ty.kind), alignment |-> KindSize(ty.kind)]
      [] ty.tag = "vec" ->
            LET out == sizeAndAlignmentOf(ScalarT(ty.kind), source)
                n == IF ty.width = 3 THEN 4 ELSE ty.width
            IN  [size |-> out.size * n, alignment |-> out.alignment * n]
      [] ty.tag = "mat" ->
            LET out == sizeAndAlignmentOf(ScalarT(ty.kind), source)
                n == IF ty.rows = 3 THEN 4 ELSE ty.rows
            IN  [size |-> out.size * n * ty.cols, alignment |-> out.alignment * n]
      [] ty.tag = "array" ->
            LET out == sizeAndAlignmentOf(ty.elem, source)
            IN  [size |-> out.size * ty.count,
                 alignment |-> IF source = "uniform"
                               THEN Align(out.alignment, 16)
                               ELSE out.alignment]

\* a slip strideOf could have: the size is returned without rounding it up
strideOfNoRounding(ty, source) == sizeAndAlignmentOf(ty, source).size

strideOf(ty, source) ==
    LET sizeAndAlign == sizeAndAlignmentOf(ty, source)
    IN  Align(sizeAndAlign.size, sizeAndAlign.alignment)

\* the loop of structLayout over members[1..n]: the offset after member n, the
\* largest alignment so far, and the offsets handed to the callback
RECURSIVE structWalk(_, _, _)
\* a slip the loop could have: members are packed back to back, unaligned
structWalkPacked(members, source, n) ==
    LET sa(k) == sizeAndAlignmentOf(members[k], source)
        end[k \in 0..n] == IF k = 0 THEN 0 ELSE end[k - 1] + sa(k).size
        al[k \in 0..n] == IF k = 0 THEN 1 ELSE Max(al[k - 1], sa(k).alignment)
    IN  [offset |-> end[n], alignment |-> al[n],
         offsets |-> [k \in 1..n |-> end[k - 1]]]

structWalk(members, source, n) ==
    IF n = 0
    THEN [offset |-> 0, alignment |-> 1, offsets |-> <<>>]
    ELSE LET prev == structWalk(members, source, n - 1)
             sizeAndAlign == sizeAndAlignmentOf(members[n], source)
             offset == Align(prev.offset, sizeAndAlign.alignment)
         IN  [offset |-> offset + sizeAndAlign.size,
              alignment |-> Max(prev.alignment, sizeAndAlign.alignment),
              offsets |-> Append(prev.offsets, offset)]

\* a slip structLayout could have: the uniform rounding of the alignment is lost
structLayoutNoUniformRounding(members, source) ==
    LET w == structWalk(members, source, Len(members))
    IN  [size |-> w.offset, stride |-> Align(w.offset, w.alignment),
         alignment |-> w.alignment, offsets |-> w.offsets]

structLayout(members, source) ==
    LET w == structWalk(members, source, Len(members))
        alignment == IF source = "uniform" THEN Align(w.alignment, 16) ELSE w.alignment
        size == w.offset
    IN  [size |-> size, stride |-> Align(size, alignment),
         alignment |-> alignment, offsets |-> w.offsets]

structStride(members, source) == structLayout(members, source).stride

(***************************************************************************)
(* Values and cases.  A scalar value carries its type and an identity v; a *)
(* case pairs a list of input values with an expectation.                  *)
(***************************************************************************)
\* VectorType.create(elements.length, elements[0].type): the VectorValue constructor
VectorValueOf(elements) ==
    [type |-> VecT(Len(elements), elements[1].type.kind), elements |-> elements]

\* c.input.map(i => i.type) of buildPipeline
InputTypesOf(c) == [p \in 1..Len(c.input) |-> c.input[p].type]

CeilDiv(a, b) == (a + b - 1) \div b

(***************************************************************************)
(* The value codec of conversion.ts: copyTo and read on a Uint8Array, with *)
(* the 8 bytes of workingData that all scalar conversions share.  A scalar *)
(* value carries its bit pattern as little-endian bytes, a bool its value. *)
(***************************************************************************)
\* buffer[offset + i] = bytes[i] for i < Len(bytes); a store past the end of a
\* typed array is dropped
StoreBytes(buf, offset, bytes) ==
    LET n == Max(0, Min(Len(bytes), Len(buf) - offset))
    IN  SubSeq(buf, 1, offset) \o SubSeq(bytes, 1, n)
            \o SubSeq(buf, offset + n + 1, Len(buf))

\* buf[index] stored into workingDataU8: undefined past the end becomes 0
LoadByte(buf, index) == IF index + 1 \in 1..Len(buf) THEN buf[index + 1] ELSE 0

\* the loop bound of copyTo of each scalar value class
CopyWidth(kind) ==
    CASE kind \in {"abstract-int", "abstract-float", "f64"} -> 8
      [] kind \in {"i32", "u32", "f32"} -> 4
      [] kind = "i16" -> 4
      [] kind \in {"u16", "f16"} -> 2
      [] kind = "i8" -> 4
      [] kind = "u8" -> 2
      [] kind = "bool" -> 1

\* <Scalar>Value.copyTo: the bits are stored into the working data and the
\* first CopyWidth bytes of the working data go to the buffer; BoolValue.copyTo
\* stores one byte.  m is [buf, wd].
ScalarCopyTo(v, m, offset) ==
    IF v.type.kind = "bool"
    THEN [m EXCEPT !.buf = StoreBytes(@, offset, <<IF v.value THEN 1 ELSE 0>>)]
    ELSE LET wd == v.bits \o SubSeq(m.wd, Len(v.bits) + 1, 8)
         IN  [buf |-> StoreBytes(m.buf, offset, SubSeq(wd, 1, CopyWidth(v.type.kind))),
              wd |-> wd]

\* ScalarType.read: valueFromBytes copies BYTES_PER_ELEMENT bytes into the
\* working data and reads element 0 of the typed view; bool reads a u32
ScalarRead(kind, m, offset) ==
    LET n == KindSize(kind)
        wd == [k \in 1..n |-> LoadByte(m.buf, offset + k - 1)] \o SubSeq(m.wd, n + 1, 8)
    IN  [value |-> IF kind = "bool"
                   THEN [type |-> ScalarT(kind), value |-> \E k \in 1..4 : wd[k] # 0]
                   ELSE [type |-> ScalarT(kind), bits |-> SubSeq(wd, 1, n)],
         m |-> [m EXCEPT !.wd = wd]]

RECURSIVE CopyTo(_, _, _), CopyElements(_, _, _, _, _), CopyColumns(_, _, _, _)
\* for (const element of elements) { element.copyTo(buffer, offset); offset += step }
\* (each iteration is evaluated once, on the buffer the one before has left)
CopyElements(elements, k, m, offset, step) ==
    IF k > Len(elements)
    THEN m
    ELSE CHOOSE done \in {CopyElements(elements, k + 1, m1, offset + step, step) :
                             m1 \in {CopyTo(elements[k], m, offset)}} : TRUE

\* the column loop of MatrixValue.copyTo: a column of 3 rows skips one element
CopyColumns(v, c, m, offset) ==
    LET es == KindSize(v.type.kind)
    IN  IF c > v.type.cols
        THEN m
        ELSE CHOOSE done \in
                    {CopyColumns(v, c + 1, m1,
                                 offset + (v.type.rows * es)
                                        + (IF v.type.rows = 3 THEN es ELSE 0)) :
                        m1 \in {CopyElements(v.elements[c], 1, m, offset, es)}} : TRUE

\* Value.copyTo(buffer, offset)
CopyTo(v, m, offset) ==
    CASE v.type.tag = "scalar" -> ScalarCopyTo(v, m, offset)
      [] v.type.tag = "vec" -> CopyElements(v.elements, 1, m, offset, KindSize(v.type.kind))
      [] v.type.tag = "mat" -> CopyColumns(v, 1, m, offset)
      [] v.type.tag = "array" ->
            CopyElements(v.elements, 1, m, offset, TypeSize(v.type.elem))

RECURSIVE Read(_, _, _), ReadElements(_, _, _, _, _, _), ReadColumns(_, _, _, _)
\* for (i < count) { elements[i] = elementType.read(buf, offset); offset += step }
\* (each iteration is evaluated once, on the working data the one before has left)
ReadElements(elem, count, m, offset, step, acc) ==
    IF Len(acc) = count
    THEN [value |-> acc, m |-> m]
    ELSE CHOOSE done \in
                {ReadElements(elem, count, r.m, offset + step, step,
                              Append(acc, r.value)) :
                    r \in {Read(elem, m, offset)}} : TRUE

\* the column loop of MatrixType.read: a column of 3 rows skips one element
ReadColumns(ty, m, offset, acc) ==
    LET es == KindSize(ty.kind)
    IN  IF Len(acc) = ty.cols
        THEN [value |-> acc, m |-> m]
        ELSE CHOOSE done \in
                    {ReadColumns(ty, r.m,
                                 offset + (ty.rows * es) + (IF ty.rows = 3 THEN es ELSE 0),
                                 Append(acc, r.value)) :
                        r \in {ReadElements(ScalarT(ty.kind), ty.rows, m, offset,
                                            es, <<>>)}} : TRUE

\* Type.read(buf, offset): the decoded value and the working data afterwards
Read(ty, m, offset) ==
    CASE ty.tag = "scalar" -> ScalarRead(ty.kind, m, offset)
      [] ty.tag = "vec" ->
            LET r == ReadElements(ScalarT(ty.kind), ty.width, m, offset,
                                  KindSize(ty.kind), <<>>)
            IN  [value |-> [type |-> ty, elements |-> r.value], m |-> r.m]
      [] ty.tag = "mat" ->
            LET r == ReadColumns(ty, m, offset, <<>>)
            IN  [value |-> [type |-> ty, elements |-> r.value], m |-> r.m]
      [] ty.tag = "array" ->
            LET r == ReadElements(ty.elem, ty.count, m, offset, ArrayStride(ty), <<>>)
            IN  [value |-> [type |-> ty, elements |-> r.value], m |-> r.m]

(***************************************************************************)
(* packScalarsToVector.  The result is [error |-> TRUE] when it throws.    *)
(***************************************************************************)
\* a slip clampCaseIdx could have: the last group wraps around to the first case
\* instead of repeating the last one
clampCaseIdxWrapping(idx, cases) == (idx % Len(cases))

\* clampCaseIdx with 0-based idx
clampCaseIdx(idx, cases) == Min(idx, Len(cases) - 1)

\* the body of the while loop for the group starting at the 0-based caseIdx
packedCaseAt(parameterTypes, cases, vectorWidth, caseIdx) ==
    [input |-> [paramIdx \in 1..Len(parameterTypes) |->
                    VectorValueOf([k \in 1..vectorWidth |->
                        cases[clampCaseIdx(caseIdx + k - 1, cases) + 1].input[paramIdx]])],
     expected |-> [kind |-> "packed",
                   cmp_impls |-> [k \in 1..vectorWidth |->
                        cases[clampCaseIdx(caseIdx + k - 1, cases) + 1].expected]]]

RECURSIVE packLoop(_, _, _, _, _)
packLoop(parameterTypes, cases, vectorWidth, caseIdx, packedCases) ==
    IF caseIdx < Len(cases)
    THEN packLoop(parameterTypes, cases, vectorWidth, caseIdx + vectorWidth,
                  Append(packedCases,
                         packedCaseAt(parameterTypes, cases, vectorWidth, caseIdx)))
    ELSE packedCases

packScalarsToVector(parameterTypes, resultType, cases, vectorWidth) ==
    IF \/ \E p \in 1..Len(parameterTypes) : parameterTypes[p].tag # "scalar"
       \/ resultType.tag # "scalar"
    THEN [error |-> TRUE]
    ELSE [error |-> FALSE,
          cases |-> packLoop(parameterTypes, cases, vectorWidth, 0, <<>>),
          parameterTypes |-> [p \in 1..Len(parameterTypes) |->
                                 VecT(vectorWidth, parameterTypes[p].kind)],
          resultType |-> VecT(vectorWidth, resultType.kind)]

(***************************************************************************)
(* The shader builders, as far as run() depends on them: whether they      *)
(* throw, and which source text they return.                               *)
(***************************************************************************)
RECURSIVE scalarTypeOf(_)
scalarTypeOf(ty) == IF ty.tag = "array" THEN scalarTypeOf(ty.elem) ELSE ScalarT(ty.kind)

AbstractKinds == {"abstract-int", "abstract-float"}

\* the asserts of storageType, fromStorage and toStorage fail for this type
storageAsserts(ty) ==
    /\ ty.tag \in {"scalar", "vec"}
    /\ ty.kind \in {"f64", "abstract-int", "abstract-float"}

\* wgslOutputs throws: no storage type, or no output struct for the result type
wgslOutputsThrows(resultType) ==
    IF scalarTypeOf(resultType).kind \notin AbstractKinds
    THEN storageAsserts(resultType)
    ELSE resultType.tag = "array"

\* basicExpressionBuilder(...)(parameterTypes, resultType, cases, inputSource) throws
basicExpressionBuilderThrows(parameterTypes, resultType, inputSource) ==
    \/ scalarTypeOf(resultType).kind \in AbstractKinds
    \/ storageAsserts(resultType)
    \/ wgslOutputsThrows(resultType)
    \/ /\ inputSource # "const"
       /\ \E p \in 1..Len(parameterTypes) : storageAsserts(parameterTypes[p])

\* a slip the compound builder could have: the result type is not compared
\* with the type of the left-hand side
compoundAssignmentBuilderThrowsAnyResult(parameterTypes, resultType, inputSource) ==
    \/ Len(parameterTypes) # 2
    \/ storageAsserts(resultType)
    \/ wgslOutputsThrows(resultType)
    \/ /\ inputSource # "const"
       /\ \E p \in 1..Len(parameterTypes) : storageAsserts(parameterTypes[p])

\* compoundAssignmentBuilder(op)(parameterTypes, resultType, cases, inputSource) throws
compoundAssignmentBuilderThrows(parameterTypes, resultType, inputSource) ==
    \/ Len(parameterTypes) # 2
    \/ parameterTypes[1] # resultType
    \/ storageAsserts(resultType)
    \/ wgslOutputsThrows(resultType)
    \/ /\ inputSource # "const"
       /\ \E p \in 1..Len(parameterTypes) : storageAsserts(parameterTypes[p])

\* a slip the abstract-float builder could have: any input source is taken
abstractFloatShaderBuilderThrowsAnySource(parameterTypes, resultType, inputSource) ==
    \/ scalarTypeOf(resultType).kind # "abstract-float"
    \/ wgslOutputsThrows(resultType)

\* abstractFloatShaderBuilder(...)(parameterTypes, resultType, cases, inputSource)
\* throws; abstractFloatCaseBody is unreachable for the result types
\* wgslOutputs throws for
abstractFloatShaderBuilderThrows(parameterTypes, resultType, inputSource) ==
    \/ inputSource # "const"
    \/ scalarTypeOf(resultType).kind # "abstract-float"
    \/ wgslOutputsThrows(resultType)

\* abstractIntShaderBuilder(...)(parameterTypes, resultType, cases, inputSource) throws
abstractIntShaderBuilderThrows(parameterTypes, resultType, inputSource) ==
    \/ inputSource # "const"
    \/ scalarTypeOf(resultType).kind # "abstract-int"
    \/ wgslOutputsThrows(resultType)

shaderBuilderThrows(shaderBuilder, parameterTypes, resultType, inputSource) ==
    IF shaderBuilder = "compound"
    THEN compoundAssignmentBuilderThrows(parameterTypes, resultType, inputSource)
    ELSE basicExpressionBuilderThrows(parameterTypes, resultType, inputSource)

\* the source text: with the const input source the case values are embedded in
\* it; otherwise it depends on the cases through cases.length only
shaderSource(cases, inputSource) ==
    IF inputSource = "const"
    THEN [count |-> Len(cases), values |-> [k \in 1..Len(cases) |-> cases[k].input]]
    ELSE [count |-> Len(cases), values |-> <<>>]

(***************************************************************************)
(* run(): batch sizing, the pipeline cache and the admission gate.         *)
(***************************************************************************)
maxBatchesInFlight == 5

\* a slip the batch sizing could have: the quotient is rounded up
casesPerBatchOfRoundedUp(batch_size, inputSource, parameterTypes, limits) ==
    IF batch_size # 0
    THEN batch_size
    ELSE CASE inputSource = "const" -> 32
           [] inputSource = "uniform" ->
                CeilDiv(Min(1024 * 2, limits.maxUniformBufferBindingSize),
                        structStride(parameterTypes, inputSource))
           [] OTHER ->
                CeilDiv(limits.maxStorageBufferBindingSize,
                        structStride(parameterTypes, inputSource))

\* the function computing casesPerBatch; batch_size = 0 stands for undefined
casesPerBatchOf(batch_size, inputSource, parameterTypes, limits) ==
    IF batch_size # 0
    THEN batch_size
    ELSE CASE inputSource = "const" -> 32
           [] inputSource = "uniform" ->
                Min(1024 * 2, limits.maxUniformBufferBindingSize)
                    \div structStride(parameterTypes, inputSource)
           [] OTHER ->
                limits.maxStorageBufferBindingSize
                    \div structStride(parameterTypes, inputSource)

\* a slip getOrCreate could have: the created value is never stored
getOrCreateNoInsert(map, key) == [map |-> map, created |-> TRUE]

\* getOrCreate on the key set of the map: the map afterwards, and whether
\* create() was called
getOrCreate(map, key) ==
    IF key \in map
    THEN [map |-> map, created |-> FALSE]
    ELSE [map |-> map \cup {key}, created |-> TRUE]

\* a slip buildPipeline could have: every input source awaits the pipeline
asyncPipelineAlways(inputSource) == TRUE

\* buildPipeline awaits createComputePipelineAsync for this input source
asyncPipeline(inputSource) == inputSource = "const"

\* a slip the slicing could have: a batch begins one case early
batchCasesAtOverlapping(cases, from, perBatch) ==
    SubSeq(cases, Max(from, 1), Min(from + perBatch, Len(cases)))

\* cases.slice(i, Math.min(i + casesPerBatch, cases.length)), i 0-based
batchCasesAt(cases, from, perBatch) ==
    SubSeq(cases, from + 1, Min(from + perBatch, Len(cases)))

\* no JS code is on the stack: a promise job may run
ThreadIdle == pc \in {"blocked", "joining", "resolved", "rejected"}

\* Promise.all(pendingBatches) is settled and run() is awaiting it
SettleReady ==
    /\ pc = "joining"
    /\ \/ \E b \in 1..Len(pendingBatches) : pendingBatches[b].st = "failed"
       \/ \A b \in 1..Len(pendingBatches) :
              pendingBatches[b].st \in {"checked", "finished"}

\* The job queue is drained: the event loop may run the next task, in which the
\* device resolves one promise.  (Promise jobs run before the next task; each
\* device promise is resolved in a task of its own.)
EventLoopIdle == ThreadIdle /\ microtasks = <<>> /\ ~SettleReady

deviceCalls == device.buffers + Len(device.pipelines) + device.submits

\* The synchronous part of processBatch(batchCases): submitBatch creates the
\* output buffer and calls buildPipeline, which checks the input types, builds
\* the source, and then either starts the asynchronous pipeline build (const) or
\* packs the input data, takes the pipeline from the cache or builds it, and
\* creates the input buffer.  rest is the job queue the batch's continuation is
\* appended to.
ProcessBatch(rest) ==
    LET batchCases == batchCasesAt(cfg.cases, i, casesPerBatch)
        b == Len(pendingBatches) + 1
        typesOk == \A k \in 1..Len(batchCases) :
                       InputTypesOf(batchCases[k]) = cfg.parameterTypes
        thrown == \/ ~typesOk
                  \/ shaderBuilderThrows(cfg.shaderBuilder, cfg.parameterTypes,
                                         cfg.resultType, cfg.inputSource)
        source == shaderSource(batchCases, cfg.inputSource)
        caseStride == structStride(cfg.parameterTypes, cfg.inputSource)
        got == getOrCreate(pipelineCache, source)
        batch == [first |-> i, count |-> Len(batchCases), st |-> "failed",
                  inputBytes |-> 0, inputSize |-> 0]
    IN  IF thrown
        THEN /\ pendingBatches' = Append(pendingBatches, batch)
             /\ device' = [device EXCEPT !.buffers = @ + 1]
             /\ usageError' = TRUE
             /\ microtasks' = rest
             /\ UNCHANGED pipelineCache
        ELSE IF asyncPipeline(cfg.inputSource)
        THEN /\ pendingBatches' = Append(pendingBatches, [batch EXCEPT !.st = "building"])
             /\ device' = [device EXCEPT !.buffers = @ + 1,
                                         !.pipelines = Append(@, source)]
             /\ microtasks' = rest
             /\ UNCHANGED <<pipelineCache, usageError>>
        ELSE /\ pendingBatches' =
                    Append(pendingBatches,
                           [batch EXCEPT !.st = "built",
                                         !.inputBytes = Len(batchCases) * caseStride,
                                         !.inputSize = Align(Len(batchCases) * caseStride, 4)])
             /\ pipelineCache' = got.map
             /\ device' = [device EXCEPT
                              !.buffers = @ + 2,
                              !.pipelines = IF got.created THEN Append(@, source) ELSE @]
             /\ microtasks' = Append(rest, <<"afterBuild", b>>)
             /\ UNCHANGED usageError

\* run() up to the loop: vectorization, casesPerBatch, the empty cache
RunStart ==
    /\ pc = "start"
    /\ LET packed == IF cfg.vectorize # 0
                     THEN packScalarsToVector(cfg.parameterTypes, cfg.resultType,
                                              cfg.cases, cfg.vectorize)
                     ELSE [error |-> FALSE, cases |-> cfg.cases,
                           parameterTypes |-> cfg.parameterTypes,
                           resultType |-> cfg.resultType]
       IN  IF packed.error
           THEN /\ pc' = "rejected"
                /\ usageError' = TRUE
                /\ UNCHANGED <<cfg, casesPerBatch>>
           ELSE /\ cfg' = [cfg EXCEPT !.cases = packed.cases,
                                      !.parameterTypes = packed.parameterTypes,
                                      !.resultType = packed.resultType]
                /\ casesPerBatch' = casesPerBatchOf(cfg.batch_size, cfg.inputSource,
                                                    packed.parameterTypes, cfg.limits)
                /\ pc' = "loop"
                /\ UNCHANGED usageError
    /\ pipelineCache' = {}
    /\ UNCHANGED <<i, batchesInFlight, resolvePromiseBlockingBatch, pendingBatches,
                   microtasks, device, lay, codec, pack, cmp, build, types, check>>

\* the for loop is over: run() awaits Promise.all(pendingBatches)
LoopExit ==
    /\ pc = "loop"
    /\ i >= Len(cfg.cases)
    /\ pc' = "joining"
    /\ UNCHANGED <<cfg, i, casesPerBatch, batchesInFlight, resolvePromiseBlockingBatch,
                   pendingBatches, microtasks, pipelineCache, device, usageError,
                   lay, codec, pack, cmp, build, types, check>>

\* one iteration that finds too many batches in flight: the loop installs the
\* resolve callback and awaits the promise (the assert throws if one is installed)
LoopBlock ==
    /\ pc = "loop"
    /\ i < Len(cfg.cases)
    /\ batchesInFlight > maxBatchesInFlight
    /\ IF resolvePromiseBlockingBatch
       THEN pc' = "rejected" /\ UNCHANGED resolvePromiseBlockingBatch
       ELSE pc' = "blocked" /\ resolvePromiseBlockingBatch' = TRUE
    /\ UNCHANGED <<cfg, i, casesPerBatch, batchesInFlight, pendingBatches, microtasks,
                   pipelineCache, device, usageError, lay, codec, pack, cmp, build, types, check>>

\* one iteration that passes the gate: the batch is admitted and processBatch
\* runs up to its first await
LoopAdmit ==
    /\ pc = "loop"
    /\ i < Len(cfg.cases)
    /\ ~(batchesInFlight > maxBatchesInFlight)
    /\ Len(pendingBatches) < MaxCases    \* the model follows no run further
    /\ batchesInFlight' = batchesInFlight + 1
    /\ ProcessBatch(microtasks)
    /\ i' = i + casesPerBatch
    /\ UNCHANGED <<cfg, pc, casesPerBatch, resolvePromiseBlockingBatch, lay, codec, pack, cmp, build, types, check>>

\* the loop continues after the await of the gate: the batch is admitted
\* without looking at batchesInFlight again
LoopResume ==
    /\ pc = "blocked"
    /\ microtasks # <<>> /\ Head(microtasks) = <<"resume", 0>>
    /\ Len(pendingBatches) < MaxCases    \* the model follows no run further
    /\ batchesInFlight' = batchesInFlight + 1
    /\ ProcessBatch(Tail(microtasks))
    /\ i' = i + casesPerBatch
    /\ pc' = "loop"
    /\ UNCHANGED <<cfg, casesPerBatch, resolvePromiseBlockingBatch, lay, codec, pack, cmp, build, types, check>>

SetSt(b, st) == [pendingBatches EXCEPT ![b].st = st]

\* the device resolves createComputePipelineAsync of some batch; buildPipeline
\* continues after its await: the bind group is created and it returns
PipelineBuilt(b) ==
    /\ EventLoopIdle
    /\ b \in 1..Len(pendingBatches)
    /\ pendingBatches[b].st = "building"
    /\ pendingBatches' = SetSt(b, "built")
    /\ microtasks' = Append(microtasks, <<"afterBuild", b>>)
    /\ UNCHANGED <<cfg, pc, i, casesPerBatch, batchesInFlight,
                   resolvePromiseBlockingBatch, pipelineCache, device, usageError,
                   lay, codec, pack, cmp, build, types, check>>

\* submitBatch after 'await buildPipeline': the pass is encoded and submitted
AfterBuild ==
    /\ ThreadIdle
    /\ microtasks # <<>> /\ Head(microtasks)[1] = "afterBuild"
    /\ LET b == Head(microtasks)[2]
       IN  /\ pendingBatches' = SetSt(b, "submitted")
           /\ device' = [device EXCEPT !.submits = @ + 1]
           /\ microtasks' = Append(Tail(microtasks), <<"afterSubmit", b>>)
    /\ UNCHANGED <<cfg, pc, i, casesPerBatch, batchesInFlight,
                   resolvePromiseBlockingBatch, pipelineCache, usageError,
                   lay, codec, pack, cmp, build, types, check>>

\* processBatch after 'await submitBatch': checkBatch() and
\* onSubmittedWorkDone().finally(batchFinishedCallback)
AfterSubmit ==
    /\ ThreadIdle
    /\ microtasks # <<>> /\ Head(microtasks)[1] = "afterSubmit"
    /\ LET b == Head(microtasks)[2]
       IN  pendingBatches' = SetSt(b, "checked")
    /\ microtasks' = Tail(microtasks)
    /\ UNCHANGED <<cfg, pc, i, casesPerBatch, batchesInFlight,
                   resolvePromiseBlockingBatch, pipelineCache, device, usageError,
                   lay, codec, pack, cmp, build, types, check>>

\* a slip the callback could have: the resolve callback is called but not cleared
batchFinishedCallbackKeepsResolve(b) ==
    /\ EventLoopIdle
    /\ b \in 1..Len(pendingBatches)
    /\ pendingBatches[b].st = "checked"
    /\ pendingBatches' = SetSt(b, "finished")
    /\ batchesInFlight' = batchesInFlight - 1
    /\ IF resolvePromiseBlockingBatch
       THEN microtasks' = Append(microtasks, <<"resume", 0>>)
       ELSE UNCHANGED microtasks
    /\ UNCHANGED <<cfg, pc, i, casesPerBatch, resolvePromiseBlockingBatch, pipelineCache,
                   device, usageError, lay, codec, pack, cmp, build, types, check>>

\* the device signals that the submitted work of some batch is done, and the
\* finally() handler runs
batchFinishedCallback(b) ==
    /\ EventLoopIdle
    /\ b \in 1..Len(pendingBatches)
    /\ pendingBatches[b].st = "checked"
    /\ pendingBatches' = SetSt(b, "finished")
    /\ batchesInFlight' = batchesInFlight - 1
    /\ IF resolvePromiseBlockingBatch
       THEN /\ microtasks' = Append(microtasks, <<"resume", 0>>)
            /\ resolvePromiseBlockingBatch' = FALSE
       ELSE UNCHANGED <<microtasks, resolvePromiseBlockingBatch>>
    /\ UNCHANGED <<cfg, pc, i, casesPerBatch, pipelineCache, device, usageError,
                   lay, codec, pack, cmp, build, types, check>>

\* 'await Promise.all(pendingBatches)': rejects when a processBatch promise has
\* rejected, resolves when all of them have resolved
Settle ==
    /\ SettleReady
    /\ pc' = IF \E b \in 1..Len(pendingBatches) : pendingBatches[b].st = "failed"
             THEN "rejected" ELSE "resolved"
    /\ UNCHANGED <<cfg, i, casesPerBatch, batchesInFlight, resolvePromiseBlockingBatch,
                   pendingBatches, microtasks, pipelineCache, device, usageError,
                   lay, codec, pack, cmp, build, types, check>>

(***************************************************************************)
(* Spec: run() on a bounded set of arguments and device limits.            *)
(***************************************************************************)
\* the builder, parameter types and result type of a call of run()
RunOverloads ==
    {[shaderBuilder |-> "basic", parameterTypes |-> <<ScalarT("i32")>>,
      resultType |-> ScalarT("i32")],
     [shaderBuilder |-> "basic", parameterTypes |-> <<VecT(3, "f32"), ScalarT("f16")>>,
      resultType |-> ScalarT("f32")],
     [shaderBuilder |-> "compound", parameterTypes |-> <<ScalarT("i32"), ScalarT("i32")>>,
      resultType |-> ScalarT("i32")],
     [shaderBuilder |-> "compound", parameterTypes |-> <<ScalarT("i32"), ScalarT("i32")>>,
      resultType |-> ScalarT("f32")]}

\* device limits: the smallest is below the stride of the widest overload,
\* the next holds one case of it, with room to spare that is less than a
\* second case
DeviceLimits ==
    {[maxUniformBufferBindingSize |-> l, maxStorageBufferBindingSize |-> l] :
        l \in {8, 40, 4096}}

\* n cases of the given parameter types; the inputs of case bad (if any) have
\* another type than declared
RunCases(parameterTypes, n, bad) ==
    [j \in 1..n |->
        [input |-> [p \in 1..Len(parameterTypes) |->
                        [type |-> IF j = bad THEN ScalarT("u8") ELSE parameterTypes[p],
                         v |-> (10 * j) + p]],
         expected |-> j]]

RunConfigs ==
    {[inputSource |-> src, shaderBuilder |-> o.shaderBuilder,
      parameterTypes |-> o.parameterTypes, resultType |-> o.resultType,
      cases |-> RunCases(o.parameterTypes, n, bad),
      batch_size |-> bs, vectorize |-> vw, limits |-> lim] :
        src \in InputSources, o \in RunOverloads, n \in 0..MaxCases,
        bad \in {0, 1, 3}, bs \in {0, 1, 4}, vw \in {0, 2}, lim \in DeviceLimits}

Init ==
    /\ cfg \in {c \in RunConfigs :
                  \* a mistyped case is tried without vectorization, on one overload
                  /\ \A j \in 1..Len(c.cases) :
                        InputTypesOf(c.cases[j]) # c.parameterTypes =>
                            (c.vectorize = 0 /\ c.shaderBuilder = "basic"
                             /\ Len(c.parameterTypes) = 1)
                  \* the device limits matter when the batch size is computed
                  /\ c.batch_size # 0 =>
                        (c.limits.maxStorageBufferBindingSize = 40 /\ c.vectorize = 0)}
    /\ pc = "start"
    /\ i = 0
    /\ casesPerBatch = 0
    /\ batchesInFlight = 0
    /\ resolvePromiseBlockingBatch = FALSE
    /\ pendingBatches = <<>>
    /\ microtasks = <<>>
    /\ pipelineCache = {}
    /\ device = [buffers |-> 0, pipelines |-> <<>>, submits |-> 0]
    /\ usageError = FALSE
    /\ lay = Idle /\ codec = Idle /\ pack = Idle
    /\ cmp = Idle /\ build = Idle /\ types = Idle /\ check = Idle

Next ==
    \/ RunStart
    \/ LoopExit
    \/ LoopBlock
    \/ LoopAdmit
    \/ LoopResume
    \/ \E b \in 1..MaxCases : PipelineBuilt(b)
    \/ AfterBuild
    \/ AfterSubmit
    \/ \E b \in 1..MaxCases : batchFinishedCallback(b)
    \/ Settle

Spec == Init /\ [][Next]_vars

(***************************************************************************)
(* Properties of run() under Spec.                                         *)
(***************************************************************************)
\* the batches that have reached t.queue.submit
Submitted(batches) ==
    {b \in 1..Len(batches) : batches[b].st \in {"submitted", "checked", "finished"}}

\* the binding size limit of the storage class of an input source
maxBindingSize(inputSource, limits) ==
    IF inputSource = "uniform"
    THEN limits.maxUniformBufferBindingSize
    ELSE limits.maxStorageBufferBindingSize

\* C1: the number of outstanding batches (admitted by the loop, completion
\* callback not yet fired), which is what batchesInFlight counts, never exceeds
\* maxBatchesInFlight = 5.
C1_Original == batchesInFlight <= maxBatchesInFlight

\* C2: run() settles: in every state either the promise of run() is resolved or
\* rejected, or the program or the device still has a step to take (a batch to
\* admit, a promise job to run, a pipeline build or a submitted dispatch to
\* complete); the loop never stays blocked on the gate with nothing left that
\* could release it.
C2_Original == pc \in {"resolved", "rejected"} \/ ENABLED Next

\* the dispatch of a batch reaches the queue in this step
SubmitsNow(b) ==
    /\ b \in 1..Len(pendingBatches)
    /\ b \notin Submitted(pendingBatches)
    /\ b \in Submitted(pendingBatches')

\* the batches are started in case order, and a dispatch that reaches the queue
\* in this step belongs to a later batch than every dispatch already there
InCaseOrder ==
    /\ \A b \in 1..(Len(pendingBatches) - 1) :
          pendingBatches[b].first <= pendingBatches[b + 1].first
    /\ \A b \in 1..Len(pendingBatches) :
          SubmitsNow(b) => \A c \in Submitted(pendingBatches) : c < b

\* C3 (as stated): for every input source the dispatches reach the device queue
\* in the order of their batches in the case list, whatever the order of the
\* pipeline builds and of the completions.
C3_Original == [][InCaseOrder]_vars

\* C3 (amended): batches are started in case order for every input source, and
\* for the buffer-backed input sources (uniform, storage_r, storage_rw) the
\* dispatches reach the device queue in case order, whatever the order of the
\* completions.
C3_BufferBackedSubmitInCaseOrder ==
    [][/\ \A b \in 1..(Len(pendingBatches) - 1) :
             pendingBatches[b].first <= pendingBatches[b + 1].first
       /\ cfg.inputSource # "const" => InCaseOrder]_vars

\* a buffer-backed run in which a batch is submitted after an earlier batch has
\* completed while another earlier one is still outstanding
C3_Witness ==
    /\ cfg.inputSource # "const"
    /\ \E a, b, c \in 1..Len(pendingBatches) :
          /\ a < c /\ b < c
          /\ pendingBatches[a].st = "finished"
          /\ pendingBatches[b].st = "checked"
          /\ pendingBatches[c].st = "submitted"

\* C4: a usage error (vectorization of non-scalar types, mistyped case inputs,
\* compound assignment with a result type other than its first parameter type)
\* is raised with no device call made before it: no buffer created, no pipeline
\* compiled, nothing submitted.
C4_Original == usageError => deviceCalls = 0

\* C5 (as stated): with a buffer-backed input source the input data of every
\* batch (cases in the batch times the struct stride) is no larger than the
\* maximum binding size of the storage class, with or without a batch_size.
C5_Original ==
    cfg.inputSource # "const" =>
        \A b \in 1..Len(pendingBatches) :
            pendingBatches[b].inputBytes <= maxBindingSize(cfg.inputSource, cfg.limits)

\* C5 (amended): with a buffer-backed input source and no batch_size override
\* the input data of every batch (cases in the batch times the struct stride)
\* is no larger than the maximum binding size of the storage class.
C5_ComputedBatchFitsBinding ==
    (cfg.inputSource # "const" /\ cfg.batch_size = 0) =>
        \A b \in 1..Len(pendingBatches) :
            pendingBatches[b].inputBytes <= maxBindingSize(cfg.inputSource, cfg.limits)

\* a run without override split into several batches, one of which could not
\* take one more case
C5_Witness ==
    /\ cfg.inputSource # "const" /\ cfg.batch_size = 0
    /\ Len(pendingBatches) >= 2
    /\ \E b \in 1..Len(pendingBatches) :
          /\ pendingBatches[b].st # "failed"
          /\ pendingBatches[b].inputBytes > 0
          /\ pendingBatches[b].inputBytes
                + structStride(cfg.parameterTypes, cfg.inputSource)
                > maxBindingSize(cfg.inputSource, cfg.limits)

\* the batches that got as far as asking for a pipeline
Built(batches) == {b \in 1..Len(batches) : batches[b].st # "failed"}

\* C6: with a buffer-backed input source no source text is compiled twice in a
\* run and the compiled sources are exactly the cache keys; with the const
\* input source every batch compiles its own pipeline and the cache stays
\* empty; the cache is empty when the loop starts.
C6_PipelineBuiltOncePerSource ==
    /\ (pc = "loop" /\ pendingBatches = <<>>) => pipelineCache = {}
    /\ cfg.inputSource # "const" =>
          /\ \A m, n \in 1..Len(device.pipelines) :
                device.pipelines[m] = device.pipelines[n] => m = n
          /\ {device.pipelines[m] : m \in 1..Len(device.pipelines)} = pipelineCache
          /\ \A b \in Built(pendingBatches) :
                [count |-> pendingBatches[b].count, values |-> <<>>] \in pipelineCache
    /\ cfg.inputSource = "const" =>
          /\ pipelineCache = {}
          /\ Len(device.pipelines) = Cardinality(Built(pendingBatches))

\* a buffer-backed run of three batches or more, of which the last is shorter:
\* two pipelines serve them all
C6_Witness ==
    /\ cfg.inputSource # "const"
    /\ Cardinality(Built(pendingBatches)) >= 3
    /\ Len(device.pipelines) = 2

\* the gate's assertion holds where the loop is about to install the callback
GateAssertionHolds ==
    (pc = "loop" /\ i < Len(cfg.cases) /\ batchesInFlight > maxBatchesInFlight)
        => ~resolvePromiseBlockingBatch

\* C23: at most one submitter is blocked on the admission gate at a time: the
\* callback is installed only while the loop is blocked, it is undefined
\* whenever the loop installs it, so that the gate's assertion never fails,
\* and a completion that finds it installed releases the loop and clears it.
C23_OneBlockedSubmitter ==
    /\ [](GateAssertionHolds /\ (resolvePromiseBlockingBatch => pc = "blocked"))
    /\ [][/\ ~(pc = "loop" /\ pc' = "rejected")
          /\ (batchesInFlight' < batchesInFlight /\ resolvePromiseBlockingBatch) =>
                /\ ~resolvePromiseBlockingBatch'
                /\ microtasks' = Append(microtasks, <<"resume", 0>>)]_vars

\* a completion has found the blocked loop and released it
C23_Witness ==
    /\ pc = "blocked"
    /\ ~resolvePromiseBlockingBatch
    /\ microtasks # <<>>
    /\ microtasks[Len(microtasks)] = <<"resume", 0>>

\* the batches formed so far are consecutive slices of the case list
ConsecutiveBatches ==
    \A b \in 1..Len(pendingBatches) :
        /\ pendingBatches[b].first = (b - 1) * casesPerBatch
        /\ pendingBatches[b].first < Len(cfg.cases)
        /\ pendingBatches[b].count
               = Min(casesPerBatch, Len(cfg.cases) - pendingBatches[b].first)

\* the loop is over and the batches cover the case list: their number is
\* ceil(k / casesPerBatch)
BatchesCoverCases ==
    LET n == Len(pendingBatches)
    IN  /\ n * casesPerBatch >= Len(cfg.cases)
        /\ n > 0 => (n - 1) * casesPerBatch < Len(cfg.cases)

\* run() has settled and nothing is left to run
Quiescent ==
    /\ pc \in {"resolved", "rejected"}
    /\ microtasks = <<>>
    /\ \A b \in 1..Len(pendingBatches) :
          pendingBatches[b].st \in {"failed", "checked", "finished"}

Finished(batches) == {b \in 1..Len(batches) : batches[b].st = "finished"}

\* C28: batchesInFlight is never negative and equals the number of batches
\* admitted minus the number of completion callbacks fired; every admitted
\* batch causes exactly one decrement, so that once no admitted batch has
\* anything left to do the counter is back to 0.
C28_Original ==
    /\ batchesInFlight >= 0
    /\ batchesInFlight = Len(pendingBatches) - Cardinality(Finished(pendingBatches))
    /\ (/\ microtasks = <<>>
        /\ \A b \in 1..Len(pendingBatches) :
              pendingBatches[b].st \in {"failed", "finished"})
          => batchesInFlight = 0

\* C29: for every parameter-type list, input source and device binding-size
\* limit the batch size computed by run() is at least 1, so that every batch
\* holds at least one case and run() forms at most as many batches as there
\* are cases.
C29_Original ==
    (pc \in {"loop", "blocked", "joining", "resolved"} \/ pendingBatches # <<>>) =>
        /\ casesPerBatch >= 1
        /\ \A b \in 1..Len(pendingBatches) : pendingBatches[b].count >= 1
        /\ Len(pendingBatches) <= Len(cfg.cases)

(***************************************************************************)
(* SpecLayout: the layout functions applied to every type of the bounded   *)
(* universe and to member lists over MemberPool, under every input source. *)
(***************************************************************************)
MemberPool ==
    {ScalarT("i32"), ScalarT("f16"), ScalarT("u8"), ScalarT("abstract-int"),
     VecT(2, "f16"), VecT(3, "f32"), VecT(3, "f16"), MatT(2, 3, "f16"),
     MatT(3, 3, "f32"), ArrayT(1, ScalarT("f32")), ArrayT(MaxCount, VecT(3, "i32"))}

MemberLists == UNION {[1..n -> MemberPool] : n \in 0..MaxMembers}

InitLayout ==
    /\ lay \in {[phase |-> "input", op |-> "type", ty |-> t, source |-> s] :
                    t \in Types, s \in InputSources}
               \cup
               {[phase |-> "input", op |-> "struct", members |-> ms, source |-> s] :
                    ms \in MemberLists, s \in InputSources}
    /\ cfg = Idle /\ pc = "idle" /\ i = 0 /\ casesPerBatch = 0
    /\ batchesInFlight = 0 /\ resolvePromiseBlockingBatch = FALSE
    /\ pendingBatches = <<>> /\ microtasks = <<>> /\ pipelineCache = {}
    /\ device = Idle /\ usageError = FALSE
    /\ codec = Idle /\ pack = Idle
    /\ cmp = Idle /\ build = Idle /\ types = Idle /\ check = Idle

\* sizeAndAlignmentOf and strideOf of one type
MeasureType ==
    /\ lay.phase = "input" /\ lay.op = "type"
    /\ lay' = [phase |-> "done", op |-> "type", ty |-> lay.ty, source |-> lay.source,
               size |-> sizeAndAlignmentOf(lay.ty, lay.source).size,
               alignment |-> sizeAndAlignmentOf(lay.ty, lay.source).alignment,
               stride |-> strideOf(lay.ty, lay.source)]
    /\ UNCHANGED <<schedVars, codec, pack, cmp, build, types, check>>

\* structLayout of one member list
MeasureStruct ==
    /\ lay.phase = "input" /\ lay.op = "struct"
    /\ LET l == structLayout(lay.members, lay.source)
       IN  lay' = [phase |-> "done", op |-> "struct", members |-> lay.members,
                   source |-> lay.source, size |-> l.size,
                   alignment |-> l.alignment, stride |-> l.stride,
                   offsets |-> l.offsets]
    /\ UNCHANGED <<schedVars, codec, pack, cmp, build, types, check>>

NextLayout == MeasureType \/ MeasureStruct

SpecLayout == InitLayout /\ [][NextLayout]_vars

\* the natural alignment of a member list: the largest alignment of its members
NaturalAlignmentOf(members) ==
    LET S == {TypeAlignment(members[k]) : k \in 1..Len(members)} \cup {1}
    IN  CHOOSE m \in S : \A x \in S : x <= m

\* C9: for every type and every member list, under every storage class, the
\* stride is at least the size and is a multiple of the alignment.
C9_StrideCoversSizeAndIsAligned ==
    lay.phase = "done" =>
        /\ lay.stride >= lay.size
        /\ lay.stride % lay.alignment = 0

\* C9 witness: a layout whose size is not a multiple of its alignment has been
\* measured (the stride had to be rounded up), for a type and for a struct.
C9_Witness ==
    /\ lay.phase = "done"
    /\ lay.op = "type"
    /\ lay.size % lay.alignment # 0
    /\ lay.stride > lay.size

\* C10 as stated: under uniform every computed alignment is a multiple of 16;
\* under the other sources it is the natural alignment.
C10_Original ==
    lay.phase = "done" =>
        /\ lay.source = "uniform" => lay.alignment % 16 = 0
        /\ lay.source # "uniform" =>
              lay.alignment = IF lay.op = "type" THEN TypeAlignment(lay.ty)
                              ELSE NaturalAlignmentOf(lay.members)

\* C10 amended: under uniform the alignment of structLayout (any member list) and
\* of sizeAndAlignmentOf for an array is a multiple of 16, while scalars, vectors
\* and matrices keep their natural alignment; under the other sources every
\* alignment is the natural one.
C10_UniformRoundsStructsAndArraysOnly ==
    lay.phase = "done" =>
        /\ (lay.source = "uniform" /\ lay.op = "struct") =>
              lay.alignment = Align(NaturalAlignmentOf(lay.members), 16)
        /\ (lay.source = "uniform" /\ lay.op = "type" /\ lay.ty.tag = "array") =>
              lay.alignment = Align(TypeAlignment(lay.ty), 16)
        /\ (lay.source = "uniform" /\ lay.op = "type" /\ lay.ty.tag # "array") =>
              lay.alignment = TypeAlignment(lay.ty)
        /\ lay.source # "uniform" =>
              lay.alignment = IF lay.op = "type" THEN TypeAlignment(lay.ty)
                              ELSE NaturalAlignmentOf(lay.members)

\* C10 witness: a uniform struct of members with natural alignment below 16 has
\* been laid out, and its alignment was rounded up.
C10_Witness ==
    /\ lay.phase = "done"
    /\ lay.op = "struct"
    /\ lay.source = "uniform"
    /\ Len(lay.members) > 0
    /\ NaturalAlignmentOf(lay.members) < 16
    /\ lay.alignment = 16

\* the largest alignment sizeAndAlignmentOf reports for a member (1 for none)
MaxMemberAlignment(members, source) ==
    CHOOSE a \in {1} \cup {sizeAndAlignmentOf(members[k], source).alignment :
                              k \in 1..Len(members)} :
        \A k \in 1..Len(members) : sizeAndAlignmentOf(members[k], source).alignment <= a

\* C24: for every member list and storage class, structLayout reports the
\* members in order with offsets such that each offset is a multiple of the
\* member's alignment and is the smallest such offset not below the end of the
\* previous member (0 for the first), so that members never overlap; the size
\* is the end of the last member (0 for no member) and the alignment is the
\* largest member alignment, rounded up to 16 for uniform only.
C24_MembersAlignedPackedInOrder ==
    (lay.phase = "done" /\ lay.op = "struct") =>
        LET n == Len(lay.members)
            sa(k) == sizeAndAlignmentOf(lay.members[k], lay.source)
            end(k) == IF k = 0 THEN 0 ELSE lay.offsets[k] + sa(k).size
            largest == MaxMemberAlignment(lay.members, lay.source)
        IN  /\ Len(lay.offsets) = n
            /\ \A k \in 1..n :
                  /\ lay.offsets[k] % sa(k).alignment = 0
                  /\ lay.offsets[k] >= end(k - 1)
                  /\ lay.offsets[k] - end(k - 1) < sa(k).alignment
            /\ lay.size = end(n)
            /\ lay.alignment = IF lay.source = "uniform" THEN Align(largest, 16)
                                ELSE largest

\* C24 witness: a struct of two members has been laid out whose second member
\* had to be moved past the end of the first to be aligned, and whose size is
\* not a multiple of its alignment.
C24_Witness ==
    /\ lay.phase = "done"
    /\ lay.op = "struct"
    /\ Len(lay.members) = 2
    /\ lay.offsets[2] >
          lay.offsets[1] + sizeAndAlignmentOf(lay.members[1], lay.source).size
    /\ lay.size % lay.alignment # 0

\* the size sizeAndAlignmentOf reports for the element of a vector or matrix
ElementSizeOf(ty, source) == sizeAndAlignmentOf(ScalarT(ty.kind), source).size

\* C11: a vector of width w and element size s has size w*s and
\* alignment w*s, except that for w = 3 the alignment alone is that of width 4:
\* the size is 3*s and the alignment 4*s, as VectorType.size and
\* VectorType.alignment give them for non-abstract elements.
C11_Original ==
    (lay.phase = "done" /\ lay.op = "type" /\ lay.ty.tag = "vec") =>
        LET s == ElementSizeOf(lay.ty, lay.source)
        IN  /\ lay.size = lay.ty.width * s
            /\ lay.alignment = (IF lay.ty.width = 3 THEN 4 ELSE lay.ty.width) * s
            /\ lay.ty.kind \notin AbstractKinds =>
                  /\ lay.size = TypeSize(lay.ty)
                  /\ lay.alignment = TypeAlignment(lay.ty)

\* C12: under uniform an array of n elements has size n * roundUp(stride of the
\* element, 16); under storage_r and storage_rw its size is n * stride of the
\* element, the stride being the element size rounded up to its alignment.
C12_Original ==
    (lay.phase = "done" /\ lay.op = "type" /\ lay.ty.tag = "array") =>
        lay.size = lay.ty.count * (IF lay.source = "uniform"
                                   THEN Align(ArrayStride(lay.ty), 16)
                                   ELSE ArrayStride(lay.ty))

(***************************************************************************)
(* SpecPack: packScalarsToVector applied to case lists of every length up  *)
(* to MaxPackCases, every vector width and a few parameter type lists.     *)
(***************************************************************************)
PackParamPool == {ScalarT("i32"), ScalarT("bool"), VecT(2, "f32")}
PackParamLists == UNION {[1..n -> PackParamPool] : n \in 1..2}

\* k cases whose values are told apart by the case and the parameter they
\* belong to; the expectation of case j is named j
ScalarCases(parameterTypes, k) ==
    [j \in 1..k |->
        [input |-> [p \in 1..Len(parameterTypes) |->
                        [type |-> parameterTypes[p], v |-> (10 * j) + p]],
         expected |-> j]]

InitPack ==
    /\ pack \in {[phase |-> "input", parameterTypes |-> pts, resultType |-> rt,
                  cases |-> ScalarCases(pts, k), vectorWidth |-> w] :
                    pts \in PackParamLists, rt \in PackParamPool,
                    k \in 0..MaxPackCases, w \in 2..4}
    /\ cfg = Idle /\ pc = "idle" /\ i = 0 /\ casesPerBatch = 0
    /\ batchesInFlight = 0 /\ resolvePromiseBlockingBatch = FALSE
    /\ pendingBatches = <<>> /\ microtasks = <<>> /\ pipelineCache = {}
    /\ device = Idle /\ usageError = FALSE
    /\ codec = Idle /\ lay = Idle
    /\ cmp = Idle /\ build = Idle /\ types = Idle /\ check = Idle

ApplyPack ==
    /\ pack.phase = "input"
    /\ pack' = [phase |-> "done", parameterTypes |-> pack.parameterTypes,
                resultType |-> pack.resultType, cases |-> pack.cases,
                vectorWidth |-> pack.vectorWidth,
                out |-> packScalarsToVector(pack.parameterTypes, pack.resultType,
                                            pack.cases, pack.vectorWidth)]
    /\ UNCHANGED <<schedVars, lay, codec, cmp, build, types, check>>

NextPack == ApplyPack

SpecPack == InitPack /\ [][NextPack]_vars

\* C7: packing k scalar cases with width w yields ceil(k/w) packed cases;
\* component i of packed case j carries the input and the expectation of source
\* case min(j*w + i, k-1); the types become vectors of width w.
C7_PackedCasesFollowClampedIndex ==
    (pack.phase = "done" /\ ~pack.out.error) =>
        LET k == Len(pack.cases)
            w == pack.vectorWidth
            np == Len(pack.parameterTypes)
            out == pack.out
        IN  /\ Len(out.cases) = CeilDiv(k, w)
            /\ \A j \in 0..(Len(out.cases) - 1) : \A c \in 0..(w - 1) :
                  LET src == pack.cases[Min((j * w) + c, k - 1) + 1]
                  IN  /\ \A p \in 1..np :
                            /\ out.cases[j + 1].input[p].elements[c + 1] = src.input[p]
                            /\ out.cases[j + 1].input[p].type = out.parameterTypes[p]
                      /\ out.cases[j + 1].expected.cmp_impls[c + 1] = src.expected
            /\ Len(out.parameterTypes) = np
            /\ \A p \in 1..np :
                  out.parameterTypes[p] = VecT(w, pack.parameterTypes[p].kind)
            /\ out.resultType = VecT(w, pack.resultType.kind)

\* C7 witness: 5 scalar cases were packed with width 4 into 2 cases, the second
\* repeating case 5 in its 2nd to 4th components.
C7_Witness ==
    /\ pack.phase = "done"
    /\ ~pack.out.error
    /\ Len(pack.cases) = 5
    /\ pack.vectorWidth = 4
    /\ Len(pack.out.cases) = 2
    /\ \A c \in 2..4 :
          pack.out.cases[2].input[1].elements[c] = pack.cases[5].input[1]

(***************************************************************************)
(* SpecCodec: a value of every type of the bounded universe is encoded     *)
(* into a buffer at an offset and decoded from there.                      *)
(***************************************************************************)
\* seeds of the bit patterns of the encoded values
Seeds == {1, 120, 250}

\* byte offsets of the value in the buffer
CodecOffsets == {0, 4}

\* what the buffer holds before the value is encoded, and how many bytes of
\* it follow the value
BufferFills == {0, 85}
BufferTails == {0, 4}

\* what earlier conversions may have left in the shared working data
WorkingDataStates == {[k \in 1..8 |-> 0], [k \in 1..8 |-> 171]}

\* a value of type ty whose scalars differ from place to place
RECURSIVE ValueOf(_, _)
ValueOf(ty, s) ==
    CASE ty.tag = "scalar" ->
            IF ty.kind = "bool"
            THEN [type |-> ty, value |-> (s \div 8) % 2 = 1]
            ELSE [type |-> ty, bits |-> [k \in 1..KindSize(ty.kind) |-> (s + k) % 256]]
      [] ty.tag = "vec" ->
            [type |-> ty,
             elements |-> [e \in 1..ty.width |-> ValueOf(ScalarT(ty.kind), s + (8 * e))]]
      [] ty.tag = "mat" ->
            [type |-> ty,
             elements |-> [c \in 1..ty.cols |->
                             [r \in 1..ty.rows |->
                                 ValueOf(ScalarT(ty.kind), s + (32 * c) + (8 * r))]]]
      [] ty.tag = "array" ->
            [type |-> ty,
             elements |-> [e \in 1..ty.count |-> ValueOf(ty.elem, s + (40 * e))]]

InitCodec ==
    /\ \E ty \in Types, s \in Seeds, off \in CodecOffsets, wd \in WorkingDataStates,
          fill \in BufferFills, tail \in BufferTails :
          LET buf == [k \in 1..(off + TypeSize(ty) + tail) |-> fill]
          IN  codec = [phase |-> "fresh", value |-> ValueOf(ty, s), offset |-> off,
                       before |-> buf, buf |-> buf, wd |-> wd, result |-> Idle]
    /\ cfg = Idle /\ pc = "idle" /\ i = 0 /\ casesPerBatch = 0
    /\ batchesInFlight = 0 /\ resolvePromiseBlockingBatch = FALSE
    /\ pendingBatches = <<>> /\ microtasks = <<>> /\ pipelineCache = {}
    /\ device = Idle /\ usageError = FALSE
    /\ lay = Idle /\ pack = Idle
    /\ cmp = Idle /\ build = Idle /\ types = Idle /\ check = Idle

\* value.copyTo(buf, offset)
CodecCopyTo ==
    /\ codec.phase = "fresh"
    /\ LET m == CopyTo(codec.value, [buf |-> codec.buf, wd |-> codec.wd], codec.offset)
       IN  codec' = [codec EXCEPT !.phase = "written", !.buf = m.buf, !.wd = m.wd]
    /\ UNCHANGED <<schedVars, lay, pack, cmp, build, types, check>>

\* value.type.read(buf, offset)
CodecRead ==
    /\ codec.phase = "written"
    /\ LET r == Read(codec.value.type, [buf |-> codec.buf, wd |-> codec.wd], codec.offset)
       IN  codec' = [codec EXCEPT !.phase = "read", !.wd = r.m.wd, !.result = r.value]
    /\ UNCHANGED <<schedVars, lay, pack, cmp, build, types, check>>

NextCodec == CodecCopyTo \/ CodecRead

SpecCodec == InitCodec /\ [][NextCodec]_vars

\* C8: type.read(buf, off) after v.copyTo(buf, off) on a zero-filled buffer
\* returns a value equal to v element by element, for every scalar, vector,
\* matrix and array type.
ZeroFilled(buf) == \A k \in 1..Len(buf) : buf[k] = 0

C8_Original ==
    (codec.phase = "read" /\ ZeroFilled(codec.before)) => codec.result = codec.value

\* the bytes a scalar value occupies: its bit pattern, a bool as the u32 0 or 1
BitPattern(v) ==
    IF v.type.kind = "bool" THEN <<IF v.value THEN 1 ELSE 0, 0, 0, 0>> ELSE v.bits

\* C30: copyTo of a scalar value of any kind at offset o writes exactly the
\* bytes [o, o + size) of its type: every byte of the range holds the value's
\* bit pattern whatever the buffer held before, and no byte outside the range
\* is modified.
C30_Original ==
    (codec.phase # "fresh" /\ codec.value.type.tag = "scalar") =>
        LET o == codec.offset
            size == KindSize(codec.value.type.kind)
        IN  \A k \in 1..Len(codec.buf) :
                codec.buf[k] = IF k \in (o + 1)..(o + size)
                               THEN BitPattern(codec.value)[k - o]
                               ELSE codec.before[k]

(***************************************************************************)
(* compare() and the comparators of compare.ts.  A scalar value carries    *)
(* its type and its value (a number or a boolean); an expectation is a     *)
(* record with a form: a value, an interval, an interval list, an interval *)
(* grid, or a comparator (anyOf, alwaysPass).  A Comparison is modelled by *)
(* whether it was thrown instead of returned, by matched, and by the       *)
(* expected representation as a sequence of coloured segments.             *)
(***************************************************************************)
Segment(color, text) == [color |-> color, text |-> text]
Comparison(matched, expected) ==
    [thrown |-> FALSE, matched |-> matched, expected |-> expected]
Thrown == [thrown |-> TRUE, matched |-> FALSE, expected |-> <<>>]

\* matched ? Colors.green(text) : Colors.red(text)
Coloured(matched, text) == <<Segment(IF matched THEN "green" ELSE "red", text)>>

FloatKinds == {"abstract-float", "f64", "f32", "f16"}
isFloatType(ty) == ty.tag = "scalar" /\ ty.kind \in FloatKinds
isFloatValue(v) == isFloatType(v.type)
isScalarValue(v) == v.type.tag = "scalar"

\* FPInterval.contains of floating_point.js
contains(interval, g) == interval.begin <= g /\ g <= interval.end

RECURSIVE compare(_, _)
\* a slip the element loop could have: some instead of every
elementsMatchSome(gs, es) ==
    \E k \in 1..Len(gs) : compare(gs[k], [form |-> "value", value |-> es[k]]).matched

\* got.elements.every((_, i) => compare(got.elements[i], e.elements[i]).matched)
elementsMatch(gs, es) ==
    \A k \in 1..Len(gs) : compare(gs[k], [form |-> "value", value |-> es[k]]).matched

compareValue(got, expected) ==
    IF got.type # expected.type /\ ~(isFloatValue(got) /\ isFloatValue(expected))
    THEN Comparison(FALSE, <<Segment("red", ToString(expected.type)),
                             Segment("none", ToString(expected))>>)
    ELSE CASE isScalarValue(got) ->
                LET isFloat == got.type.kind \in {"f64", "f32", "f16"}
                    matched == \/ (isFloat /\ got.value = expected.value)
                               \/ (~isFloat /\ got.value = expected.value)
                IN  Comparison(matched, Coloured(matched, ToString(expected)))
           [] got.type.tag = "vec" ->
                LET matched == /\ Len(got.elements) = Len(expected.elements)
                               /\ elementsMatch(got.elements, expected.elements)
                IN  Comparison(matched, Coloured(matched, ToString(expected)))
           [] got.type.tag = "mat" ->
                LET matched ==
                        /\ got.type.cols = expected.type.cols
                        /\ got.type.rows = expected.type.rows
                        /\ \A c \in 1..Len(got.elements) :
                              elementsMatch(got.elements[c], expected.elements[c])
                IN  Comparison(matched, Coloured(matched, ToString(expected)))
           [] OTHER -> Thrown

\* a slip compareInterval could have: the type check left out
compareIntervalUnchecked(got, expected) ==
    IF isScalarValue(got)
    THEN LET matched == contains(expected, got.value)
         IN  Comparison(matched, Coloured(matched, ToString(expected)))
    ELSE Thrown

compareInterval(got, expected) ==
    IF ~isFloatValue(got)
    THEN Comparison(FALSE, <<Segment("none", "floating point value")>>)
    ELSE IF isScalarValue(got)
    THEN LET matched == contains(expected, got.value)
         IN  Comparison(matched, Coloured(matched, ToString(expected)))
    ELSE Thrown

\* 'idx in failures' on the array of failing indices: idx is an index OF failures
markedRed(idx, failures) == idx \in 0..(Len(failures) - 1)

\* results.filter(v => !v.match).map(v => v.index), indices 0-based
RECURSIVE failuresOf(_, _, _)
failuresOf(got, expected, idx) ==
    IF idx >= Len(got.elements)
    THEN <<>>
    ELSE (IF contains(expected[idx + 1], got.elements[idx + 1].value)
          THEN <<>> ELSE <<idx>>) \o failuresOf(got, expected, idx + 1)

compareVector(got, expected) ==
    IF got.type.tag # "vec"
    THEN Comparison(FALSE, <<Segment("none", "Vector")>>)
    ELSE IF ~isFloatValue(got.elements[1])
    THEN Comparison(FALSE, <<Segment("none", "floating point elements")>>)
    ELSE IF Len(got.elements) # Len(expected)
    THEN Comparison(FALSE, <<Segment("none", ToString(Len(expected)) \o " elements")>>)
    ELSE LET failures == failuresOf(got, expected, 0)
         IN  IF Len(failures) # 0
             THEN Comparison(FALSE,
                     [k \in 1..Len(expected) |->
                         Segment(IF markedRed(k - 1, failures) THEN "red" ELSE "green",
                                 ToString(expected[k]))])
             ELSE Comparison(TRUE, <<Segment("green", ToString(expected))>>)

\* expected_strings[i][j], flattened column by column
cellSegments(got, expected) ==
    LET rows == Len(got.elements[1])
    IN  [k \in 1..(Len(got.elements) * rows) |->
            LET c == ((k - 1) \div rows) + 1
                r == ((k - 1) % rows) + 1
            IN  Segment(IF contains(expected[c][r], got.elements[c][r].value)
                        THEN "green" ELSE "red",
                        ToString(expected[c][r]))]

compareMatrix(got, expected) ==
    IF got.type.tag # "mat"
    THEN Comparison(FALSE, <<Segment("none", "Matrix")>>)
    ELSE IF ~isFloatValue(got.elements[1][1])
    THEN Comparison(FALSE, <<Segment("none", "floating point elements")>>)
    ELSE IF Len(got.elements) # Len(expected) \/ Len(got.elements[1]) # Len(expected[1])
    THEN Thrown
    ELSE LET segments == cellSegments(got, expected)
         IN  Comparison(\A k \in 1..Len(segments) : segments[k].color = "green",
                        segments)

\* expected instanceof Array, and then expected[0] instanceof Array
compare(got, expected) ==
    CASE expected.form = "grid" -> compareMatrix(got, expected.intervals)
      [] expected.form = "list" -> compareVector(got, expected.intervals)
      [] expected.form = "interval" -> compareInterval(got, expected.interval)
      [] OTHER -> compareValue(got, expected.value)

alwaysPass(msg) == Comparison(TRUE, <<Segment("none", msg)>>)

\* failed.add(cmp.expected) on a Set, which keeps insertion order
setAdd(failed, expected) ==
    IF \E k \in 1..Len(failed) : failed[k] = expected
    THEN failed
    ELSE Append(failed, expected)

\* [...failed].join(' or ')
RECURSIVE joinOr(_)
joinOr(failed) ==
    IF Len(failed) = 0 THEN <<>>
    ELSE IF Len(failed) = 1 THEN failed[1]
    ELSE failed[1] \o <<Segment("none", " or ")>> \o joinOr(Tail(failed))

RECURSIVE comparatorCompare(_, _)
RECURSIVE anyOfLoop(_, _, _, _)
\* the for loop of anyOf's compare, from expectation k on
anyOfLoop(expectations, k, got, failed) ==
    IF k > Len(expectations)
    THEN Comparison(FALSE, joinOr(failed))
    ELSE LET c == comparatorCompare(expectations[k], got)
         IN  IF c.thrown THEN Thrown
             ELSE IF c.matched THEN c
             ELSE anyOfLoop(expectations, k + 1, got, setAdd(failed, c.expected))

anyOf(expectations, got) == anyOfLoop(expectations, 1, got, <<>>)

\* toComparator(e).compare(got) of expectation.js: a Comparator is used as it
\* is, any other expectation is compared with compare()
comparatorCompare(e, got) ==
    CASE e.form = "anyOf" -> anyOf(e.expectations, got)
      [] e.form = "alwaysPass" -> alwaysPass(e.msg)
      [] OTHER -> compare(got, e)

(***************************************************************************)
(* SpecCompare: one expectation is compared with one value got from the    *)
(* device, as run() does for every case through toComparator(e).compare.   *)
(***************************************************************************)
ScalarValue(kind, x) == [type |-> ScalarT(kind), value |-> x]
VecValue(kind, xs) ==
    [type |-> VecT(Len(xs), kind),
     elements |-> [k \in 1..Len(xs) |-> ScalarValue(kind, xs[k])]]
MatValue(kind, cols) ==
    [type |-> MatT(Len(cols), Len(cols[1]), kind),
     elements |-> [c \in 1..Len(cols) |->
                     [r \in 1..Len(cols[1]) |-> ScalarValue(kind, cols[c][r])]]]

Numbers == {0, 1, 5}
Pairs(S) == {<<a, b>> : a \in S, b \in S}

ScalarValues ==
    {ScalarValue("bool", x) : x \in BOOLEAN}
        \cup {ScalarValue("i32", x) : x \in {0, 1}}
        \cup {ScalarValue(k, x) : k \in {"f32", "f16"}, x \in Numbers}
        \cup {ScalarValue("abstract-float", 1)}
VectorValues ==
    {VecValue("bool", xs) : xs \in Pairs(BOOLEAN)}
        \cup {VecValue(k, xs) : k \in {"f32", "f16"}, xs \in Pairs(Numbers)}
        \cup {VecValue("i32", <<0, 1>>), VecValue("f32", <<0, 1, 5>>),
              VecValue("f32", <<1, 1, 1>>)}
MatrixValues ==
    {MatValue(k, <<c, <<1, 1>>>>) : k \in {"f32", "f16"}, c \in Pairs({0, 1})}
        \cup {MatValue("f32", <<<<0, 1, 1>>, <<1, 1, 0>>>>),
              MatValue("f32", <<<<0, 1>>, <<1, 1>>, <<1, 0>>>>)}
ArrayValues ==
    {[type |-> ArrayT(1, ScalarT("i32")), elements |-> <<ScalarValue("i32", 1)>>]}

Intervals == {[begin |-> 0, end |-> 1], [begin |-> 1, end |-> 1], [begin |-> 5, end |-> 5]}
IntervalLists ==
    {<<>>} \cup Pairs(Intervals)
        \cup {<<a, a, a>> : a \in Intervals}
IntervalGrids ==
    {<<c, <<[begin |-> 0, end |-> 1], [begin |-> 1, end |-> 1]>>>> : c \in Pairs(Intervals)}
        \cup {<<<<a, a, a>>, <<a, a, a>>>> : a \in Intervals}
        \cup {<<<<a, a>>, <<a, a>>, <<a, a>>>> : a \in Intervals}

ValueExpectation(v) == [form |-> "value", value |-> v]
IntervalExpectation(x) == [form |-> "interval", interval |-> x]
ListExpectation(xs) == [form |-> "list", intervals |-> xs]
GridExpectation(g) == [form |-> "grid", intervals |-> g]
AnyOfExpectation(es) == [form |-> "anyOf", expectations |-> es]
AlwaysPassExpectation == [form |-> "alwaysPass", msg |-> "always pass"]

\* what anyOf is given in the model: a few expectations of every form
ChildPool ==
    <<IntervalExpectation([begin |-> 0, end |-> 1]),
      IntervalExpectation([begin |-> 5, end |-> 5]),
      ValueExpectation(ScalarValue("f32", 1)),
      ValueExpectation(VecValue("bool", <<TRUE, TRUE>>)),
      ListExpectation(<<[begin |-> 0, end |-> 1], [begin |-> 0, end |-> 1]>>),
      GridExpectation(<<<<[begin |-> 0, end |-> 1], [begin |-> 0, end |-> 1],
                          [begin |-> 0, end |-> 1]>>,
                        <<[begin |-> 0, end |-> 1], [begin |-> 0, end |-> 1],
                          [begin |-> 0, end |-> 1]>>>>),
      GridExpectation(<<<<[begin |-> 0, end |-> 1], [begin |-> 0, end |-> 1]>>,
                        <<[begin |-> 0, end |-> 1], [begin |-> 0, end |-> 1]>>>>),
      AlwaysPassExpectation>>
ChildLists ==
    UNION {[1..n -> 1..Len(ChildPool)] : n \in 0..MaxChildren}

\* the expectations one got is compared with; values of different shapes are
\* kept in separate sets
InputsWith(got) ==
    \/ \E v \in ScalarValues :
          cmp = [phase |-> "input", got |-> got, expected |-> ValueExpectation(v)]
    \/ \E v \in VectorValues :
          cmp = [phase |-> "input", got |-> got, expected |-> ValueExpectation(v)]
    \/ \E v \in MatrixValues :
          cmp = [phase |-> "input", got |-> got, expected |-> ValueExpectation(v)]
    \/ \E v \in ArrayValues :
          cmp = [phase |-> "input", got |-> got, expected |-> ValueExpectation(v)]
    \/ \E x \in Intervals :
          cmp = [phase |-> "input", got |-> got, expected |-> IntervalExpectation(x)]
    \/ \E xs \in IntervalLists :
          cmp = [phase |-> "input", got |-> got, expected |-> ListExpectation(xs)]
    \/ \E g \in IntervalGrids :
          cmp = [phase |-> "input", got |-> got, expected |-> GridExpectation(g)]
    \/ \E picks \in ChildLists :
          cmp = [phase |-> "input", got |-> got,
                 expected |-> AnyOfExpectation(
                                 [k \in 1..Len(picks) |-> ChildPool[picks[k]]])]
    \/ cmp = [phase |-> "input", got |-> got, expected |-> AlwaysPassExpectation]

InitCompare ==
    /\ \/ \E got \in ScalarValues : InputsWith(got)
       \/ \E got \in VectorValues : InputsWith(got)
       \/ \E got \in MatrixValues : InputsWith(got)
       \/ \E got \in ArrayValues : InputsWith(got)
    /\ cfg = Idle /\ pc = "idle" /\ i = 0 /\ casesPerBatch = 0
    /\ batchesInFlight = 0 /\ resolvePromiseBlockingBatch = FALSE
    /\ pendingBatches = <<>> /\ microtasks = <<>> /\ pipelineCache = {}
    /\ device = Idle /\ usageError = FALSE
    /\ lay = Idle /\ codec = Idle /\ pack = Idle /\ build = Idle
    /\ types = Idle /\ check = Idle

\* toComparator(c.expected).compare(got) with an expectation that is not a Comparator
CompareExpectation ==
    /\ cmp.phase = "input"
    /\ cmp.expected.form \in {"value", "interval", "list", "grid"}
    /\ cmp' = [cmp EXCEPT !.phase = "done"] @@ [result |-> compare(cmp.got, cmp.expected)]
    /\ UNCHANGED <<schedVars, lay, codec, pack, build, types, check>>

\* toComparator(c.expected).compare(got) with a Comparator
CompareComparator ==
    /\ cmp.phase = "input"
    /\ cmp.expected.form \in {"anyOf", "alwaysPass"}
    /\ cmp' = [cmp EXCEPT !.phase = "done"]
                  @@ [result |-> comparatorCompare(cmp.expected, cmp.got)]
    /\ UNCHANGED <<schedVars, lay, codec, pack, build, types, check>>

NextCompare == CompareExpectation \/ CompareComparator

SpecCompare == InitCompare /\ [][NextCompare]_vars

\* the scalars of a scalar, vector or matrix value, column by column
Flat(v) ==
    CASE v.type.tag = "scalar" -> <<v.value>>
      [] v.type.tag = "vec" -> [k \in 1..v.type.width |-> v.elements[k].value]
      [] v.type.tag = "mat" ->
            [k \in 1..(v.type.cols * v.type.rows) |->
                v.elements[((k - 1) \div v.type.rows) + 1][((k - 1) % v.type.rows) + 1].value]

SameShape(t1, t2) ==
    /\ t1.tag = t2.tag
    /\ t1.tag = "vec" => t1.width = t2.width
    /\ t1.tag = "mat" => (t1.cols = t2.cols /\ t1.rows = t2.rows)

\* C13: compare(got, expected) with a concrete expected Value of another type
\* than got's: when the scalar kinds are not both floating the result is
\* unmatched; when both kinds are floating (f16, f32, f64, abstract-float),
\* for scalars, vectors and matrices alike, the result is matched iff the
\* elements are numerically equal.
C13_Original ==
    (/\ cmp.phase = "done"
     /\ cmp.expected.form = "value"
     /\ cmp.got.type # cmp.expected.value.type) =>
        LET g == cmp.got
            e == cmp.expected.value
            bothFloating == /\ scalarTypeOf(g.type).kind \in FloatKinds
                            /\ scalarTypeOf(e.type).kind \in FloatKinds
        IN  /\ ~cmp.result.thrown
            /\ ~bothFloating => ~cmp.result.matched
            /\ (bothFloating /\ g.type.tag # "array" /\ e.type.tag # "array") =>
                  (cmp.result.matched <=> (SameShape(g.type, e.type) /\ Flat(g) = Flat(e)))

\* C14: for got and expected of the same scalar, vector or matrix type,
\* compare returns matched iff every pair of corresponding elements is equal
\* (the boolean vector (true,false) matches (true,false), not (true,true)).
C14_SameTypeMatchedIffElementsEqual ==
    (/\ cmp.phase = "done"
     /\ cmp.expected.form = "value"
     /\ cmp.got.type = cmp.expected.value.type
     /\ cmp.got.type.tag \in {"scalar", "vec", "mat"}) =>
        /\ ~cmp.result.thrown
        /\ cmp.result.matched <=> (Flat(cmp.got) = Flat(cmp.expected.value))

\* (true,false) was compared with (true,true) and did not match
C14_Witness ==
    /\ cmp.phase = "done"
    /\ cmp.expected.form = "value"
    /\ cmp.got.type = VecT(2, "bool")
    /\ cmp.expected.value.type = VecT(2, "bool")
    /\ Flat(cmp.got) = <<TRUE, FALSE>>
    /\ Flat(cmp.expected.value) = <<TRUE, TRUE>>
    /\ ~cmp.result.matched

\* index idx (0-based) of the n-wide expected vector is shown as failing: the
\* red segment is its own, or the one segment that holds the whole vector
markedFailing(result, idx, n) ==
    IF Len(result.expected) = n
    THEN result.expected[idx + 1].color = "red"
    ELSE result.expected[1].color = "red"

\* C15: when a vector comparison fails, against an expected vector Value or
\* against an interval list, the expected representation marks as failing
\* exactly the indices whose element did not match ((true,false) against
\* (true,true) marks index 1 only).
C15_Original ==
    /\ (/\ cmp.phase = "done"
        /\ cmp.expected.form = "value"
        /\ cmp.got.type.tag = "vec"
        /\ cmp.got.type = cmp.expected.value.type
        /\ ~cmp.result.matched) =>
           \A idx \in 0..(cmp.got.type.width - 1) :
               markedFailing(cmp.result, idx, cmp.got.type.width)
                   <=> (cmp.got.elements[idx + 1].value
                            # cmp.expected.value.elements[idx + 1].value)
    /\ (/\ cmp.phase = "done"
        /\ cmp.expected.form = "list"
        /\ cmp.got.type.tag = "vec"
        /\ cmp.got.type.kind \in FloatKinds
        /\ cmp.got.type.width = Len(cmp.expected.intervals)
        /\ ~cmp.result.matched) =>
           \A idx \in 0..(cmp.got.type.width - 1) :
               markedFailing(cmp.result, idx, cmp.got.type.width)
                   <=> ~contains(cmp.expected.intervals[idx + 1],
                                 cmp.got.elements[idx + 1].value)

\* C16: compare(got, interval) is matched iff got is a floating scalar whose
\* numeric value the interval contains; for any other got (integer, boolean,
\* vector, matrix) an unmatched Comparison is returned.
C16_IntervalMatchesContainedFloatScalar ==
    (cmp.phase = "done" /\ cmp.expected.form = "interval") =>
        /\ ~cmp.result.thrown
        /\ cmp.result.matched <=>
              /\ cmp.got.type.tag = "scalar"
              /\ cmp.got.type.kind \in FloatKinds
              /\ contains(cmp.expected.interval, cmp.got.value)

\* the f16 scalar 5 was compared with the interval [5, 5] and matched
C16_Witness ==
    /\ cmp.phase = "done"
    /\ cmp.expected.form = "interval"
    /\ cmp.got.type = ScalarT("f16")
    /\ cmp.got.value = 5
    /\ cmp.expected.interval = [begin |-> 5, end |-> 5]
    /\ cmp.result.matched

\* C17: compare with an interval list (an interval grid) is matched iff got is
\* a vector (a matrix) of floating elements of the list's length (the grid's
\* columns and rows) whose every element lies in its interval; a got of
\* another kind or shape gives an unmatched Comparison, never a thrown error.
C17_Original ==
    /\ (cmp.phase = "done" /\ cmp.expected.form = "list") =>
          /\ ~cmp.result.thrown
          /\ cmp.result.matched <=>
                /\ cmp.got.type.tag = "vec"
                /\ cmp.got.type.kind \in FloatKinds
                /\ cmp.got.type.width = Len(cmp.expected.intervals)
                /\ \A k \in 1..cmp.got.type.width :
                      contains(cmp.expected.intervals[k], cmp.got.elements[k].value)
    /\ (cmp.phase = "done" /\ cmp.expected.form = "grid") =>
          /\ ~cmp.result.thrown
          /\ cmp.result.matched <=>
                /\ cmp.got.type.tag = "mat"
                /\ cmp.got.type.kind \in FloatKinds
                /\ cmp.got.type.cols = Len(cmp.expected.intervals)
                /\ cmp.got.type.rows = Len(cmp.expected.intervals[1])
                /\ \A c \in 1..cmp.got.type.cols, r \in 1..cmp.got.type.rows :
                      contains(cmp.expected.intervals[c][r],
                               cmp.got.elements[c][r].value)

\* sub occurs in full as a run of consecutive segments
Occurs(sub, full) ==
    \E at \in 0..(Len(full) - Len(sub)) : SubSeq(full, at + 1, at + Len(sub)) = sub

\* C18: anyOf(e1..en).compare(got) is matched iff some ei matches got, and is
\* then the Comparison of the first matching ei; when none matches (n = 0
\* included) it is unmatched and its expected representation is the union,
\* without duplicates, of the rejected children's expected representations.
C18_Original ==
    (cmp.phase = "done" /\ cmp.expected.form = "anyOf") =>
        LET es == cmp.expected.expectations
            child(k) == comparatorCompare(es[k], cmp.got)
            rejected == {child(k).expected : k \in 1..Len(es)}
            separators == {at \in 1..Len(cmp.result.expected) :
                              cmp.result.expected[at] = Segment("none", " or ")}
        IN  IF \E k \in 1..Len(es) : child(k).matched
            THEN LET first == CHOOSE k \in 1..Len(es) :
                                 /\ child(k).matched
                                 /\ \A j \in 1..(k - 1) : ~child(j).matched
                 IN  cmp.result = child(first)
            ELSE /\ ~cmp.result.thrown
                 /\ ~cmp.result.matched
                 /\ \A r \in rejected : Occurs(r, cmp.result.expected)
                 /\ Cardinality(separators) = Max(Cardinality(rejected), 1) - 1
                 /\ es = <<>> => cmp.result.expected = <<>>

(***************************************************************************)
(* SpecBuilder: one of the four shader builders is called with parameter   *)
(* types, a result type, a case list and an input source.                  *)
(***************************************************************************)
BuilderKinds == {"f32", "f16", "f64", "i32", "u32", "bool", "abstract-int", "abstract-float"}
BuilderTypes ==
    {ScalarT(k) : k \in BuilderKinds}
        \cup {VecT(2, k) : k \in {"f32", "bool", "f64", "abstract-int", "abstract-float"}}
        \cup {MatT(2, 2, "f32"), MatT(2, 2, "abstract-float")}
        \cup {ArrayT(1, ScalarT("i32")), ArrayT(1, ScalarT("abstract-float"))}
RhsTypes == {ScalarT("f32"), ScalarT("f64"), ScalarT("i32"), VecT(2, "abstract-int")}
BuilderParameterLists ==
    {<<>>} \cup {<<a>> : a \in BuilderTypes}
        \cup {<<a, b>> : a \in BuilderTypes, b \in RhsTypes}
        \cup {<<a, a, a>> : a \in RhsTypes}
BuilderCaseLists == {<<>>, <<[input |-> 1], [input |-> 2]>>}

InitBuilder ==
    /\ \E sb \in {"basic", "compound", "abstractFloat", "abstractInt"},
          pts \in BuilderParameterLists, rt \in BuilderTypes,
          cases \in BuilderCaseLists, src \in InputSources :
          build = [phase |-> "input", shaderBuilder |-> sb, parameterTypes |-> pts,
                   resultType |-> rt, cases |-> cases, inputSource |-> src]
    /\ cfg = Idle /\ pc = "idle" /\ i = 0 /\ casesPerBatch = 0
    /\ batchesInFlight = 0 /\ resolvePromiseBlockingBatch = FALSE
    /\ pendingBatches = <<>> /\ microtasks = <<>> /\ pipelineCache = {}
    /\ device = Idle /\ usageError = FALSE
    /\ lay = Idle /\ codec = Idle /\ pack = Idle /\ cmp = Idle
    /\ types = Idle /\ check = Idle

\* the call returns the source text or throws
Returned(throws) ==
    build' = [build EXCEPT !.phase = "done"]
                 @@ [thrown |-> throws,
                     source |-> IF throws
                                THEN Idle
                                ELSE shaderSource(build.cases, build.inputSource)]

BuildBasic ==
    /\ build.phase = "input"
    /\ build.shaderBuilder = "basic"
    /\ Returned(basicExpressionBuilderThrows(build.parameterTypes, build.resultType,
                                             build.inputSource))
    /\ UNCHANGED <<schedVars, lay, codec, pack, cmp, types, check>>

BuildCompound ==
    /\ build.phase = "input"
    /\ build.shaderBuilder = "compound"
    /\ Returned(compoundAssignmentBuilderThrows(build.parameterTypes, build.resultType,
                                                build.inputSource))
    /\ UNCHANGED <<schedVars, lay, codec, pack, cmp, types, check>>

BuildAbstractFloat ==
    /\ build.phase = "input"
    /\ build.shaderBuilder = "abstractFloat"
    /\ Returned(abstractFloatShaderBuilderThrows(build.parameterTypes, build.resultType,
                                                 build.inputSource))
    /\ UNCHANGED <<schedVars, lay, codec, pack, cmp, types, check>>

BuildAbstractInt ==
    /\ build.phase = "input"
    /\ build.shaderBuilder = "abstractInt"
    /\ Returned(abstractIntShaderBuilderThrows(build.parameterTypes, build.resultType,
                                               build.inputSource))
    /\ UNCHANGED <<schedVars, lay, codec, pack, cmp, types, check>>

NextBuilder == BuildBasic \/ BuildCompound \/ BuildAbstractFloat \/ BuildAbstractInt

SpecBuilder == InitBuilder /\ [][NextBuilder]_vars

\* scalar or vector whose scalar kind has no storage type
NoStorageType(ty) ==
    /\ ty.tag \in {"scalar", "vec"}
    /\ ty.kind \in {"f64", "abstract-int", "abstract-float"}

Accepting ==
    {sb \in {"basic", "abstractFloat", "abstractInt"} :
        CASE sb = "basic" ->
                ~basicExpressionBuilderThrows(build.parameterTypes, build.resultType,
                                              build.inputSource)
          [] sb = "abstractFloat" ->
                ~abstractFloatShaderBuilderThrows(build.parameterTypes, build.resultType,
                                                  build.inputSource)
          [] sb = "abstractInt" ->
                ~abstractIntShaderBuilderThrows(build.parameterTypes, build.resultType,
                                                build.inputSource)}

\* C20: the abstract-float and the abstract-int builder raise an error for
\* every input source other than const and for every result type whose scalar
\* kind is not their abstract kind; the basic builder raises an error for
\* every result type whose scalar kind is abstract-float or abstract-int; so
\* at most one of the three builders accepts a (result type, input source).
C20_AbstractBuildersConstOnlyBasicConcreteOnly ==
    build.phase = "done" =>
        LET kind == scalarTypeOf(build.resultType).kind
        IN  /\ (/\ build.shaderBuilder = "abstractFloat"
                /\ (build.inputSource # "const" \/ kind # "abstract-float"))
                   => build.thrown
            /\ (/\ build.shaderBuilder = "abstractInt"
                /\ (build.inputSource # "const" \/ kind # "abstract-int"))
                   => build.thrown
            /\ (build.shaderBuilder = "basic" /\ kind \in AbstractKinds)
                   => build.thrown
            /\ Cardinality(Accepting) <= 1
            /\ (build.shaderBuilder # "compound" /\ ~build.thrown)
                   => Accepting = {build.shaderBuilder}

\* the abstract-float builder was called for an abstract-float result with the
\* uniform input source and threw
C20_Witness ==
    /\ build.phase = "done"
    /\ build.shaderBuilder = "abstractFloat"
    /\ build.resultType = VecT(2, "abstract-float")
    /\ build.inputSource = "uniform"
    /\ build.thrown

\* C21: with a buffer-backed input source, a parameter type whose scalar kind
\* is f64, abstract-int or abstract-float, be it a scalar, a vector, a matrix
\* or an array of such elements, makes the builder raise an error instead of
\* emitting an input-buffer member of that kind.
C21_Original ==
    (/\ build.phase = "done"
     /\ build.shaderBuilder \in {"basic", "compound"}
     /\ build.inputSource # "const"
     /\ \E p \in 1..Len(build.parameterTypes) :
           scalarTypeOf(build.parameterTypes[p]).kind
               \in {"f64", "abstract-int", "abstract-float"}) =>
        build.thrown

(***************************************************************************)
(* SpecTypes: the interning of type descriptors (conversion.ts).  A        *)
(* descriptor instance is an index of the heap; a reference to a type is   *)
(* a scalar kind (the predeclared ScalarType of that kind) or a descriptor *)
(* instance.  Each class keeps its instances map from key strings.         *)
(***************************************************************************)
ScalarRef(kind) == [kind |-> kind, id |-> 0]
DescRef(id) == [kind |-> "desc", id |-> id]

\* toString() of the referenced type
RECURSIVE typeToString(_, _)
typeToString(heap, ref) ==
    IF ref.kind # "desc"
    THEN ref.kind
    ELSE LET d == heap[ref.id]
         IN  CASE d.class = "vec" ->
                    "vec" \o ToString(d.a) \o "<" \o typeToString(heap, d.elem) \o ">"
               [] d.class = "mat" ->
                    "mat" \o ToString(d.a) \o "x" \o ToString(d.b)
                          \o "<" \o typeToString(heap, d.elem) \o ">"
               [] d.class = "array" ->
                    "array<" \o typeToString(heap, d.elem) \o ", " \o ToString(d.a) \o ">"

\* a slip the key could have: the shape numbers are left out
instanceKeyOfElementOnly(heap, class, a, b, elem) == typeToString(heap, elem)

\* const key of VectorType.create, MatrixType.create and ArrayType.create
instanceKey(heap, class, a, b, elem) ==
    CASE class = "vec" -> typeToString(heap, elem) \o " " \o ToString(a) \o "}"
      [] class = "mat" -> typeToString(heap, elem) \o " " \o ToString(a) \o " " \o ToString(b)
      [] class = "array" -> typeToString(heap, elem) \o " " \o ToString(a)

\* static create: the state after the call and the instance it returns
create(t, class, a, b, elem) ==
    LET key == instanceKey(t.heap, class, a, b, elem)
        found == {e \in t.instances : e.class = class /\ e.key = key}
    IN  IF found # {}
        THEN [t |-> t, ty |-> (CHOOSE e \in found : TRUE).id]
        ELSE LET id == Len(t.heap) + 1
             IN  [t |-> [t EXCEPT !.heap = Append(@, [class |-> class, a |-> a, b |-> b,
                                                      elem |-> elem]),
                                  !.instances = @ \cup {[class |-> class, key |-> key,
                                                         id |-> id]}],
                  ty |-> id]

VectorShapes == {[a |-> 2, b |-> 0, elem |-> ScalarRef("f32")],
                 [a |-> 3, b |-> 0, elem |-> ScalarRef("f32")],
                 [a |-> 2, b |-> 0, elem |-> ScalarRef("i32")]}
MatrixShapes == {[a |-> 2, b |-> 2, elem |-> ScalarRef("f32")],
                 [a |-> 2, b |-> 3, elem |-> ScalarRef("f32")]}
\* arrays of a scalar or of any descriptor handed out so far
ArrayShapes(t) ==
    {[a |-> n, b |-> 0, elem |-> e] :
        n \in 1..2, e \in {ScalarRef("f32")} \cup {DescRef(d) : d \in 1..Len(t.heap)}}

InitTypes ==
    /\ types = [heap |-> <<>>, instances |-> {}, calls |-> {}, values |-> {}]
    /\ cfg = Idle /\ pc = "idle" /\ i = 0 /\ casesPerBatch = 0
    /\ batchesInFlight = 0 /\ resolvePromiseBlockingBatch = FALSE
    /\ pendingBatches = <<>> /\ microtasks = <<>> /\ pipelineCache = {}
    /\ device = Idle /\ usageError = FALSE
    /\ lay = Idle /\ codec = Idle /\ pack = Idle /\ cmp = Idle /\ build = Idle
    /\ check = Idle

\* the call allocates no descriptor beyond the bound of the model
WithinHeap(r) == Len(r.t.heap) <= MaxDescriptors

\* X.create(...) called by the program: the returned instance is noted
TypeCreate(class, shape) ==
    LET r == create(types, class, shape.a, shape.b, shape.elem)
    IN  /\ WithinHeap(r)
        /\ types' = [r.t EXCEPT !.calls = @ \cup {[class |-> class, shape |-> shape,
                                                   id |-> r.ty]}]
        /\ UNCHANGED <<schedVars, lay, codec, pack, cmp, build, check>>

\* new XValue(elements): the constructor sets this.type = X.create(...)
NewValue(class, shape) ==
    LET r == create(types, class, shape.a, shape.b, shape.elem)
    IN  /\ WithinHeap(r)
        /\ types' = [r.t EXCEPT !.values = @ \cup {[class |-> class, shape |-> shape,
                                                    type |-> r.ty]}]
        /\ UNCHANGED <<schedVars, lay, codec, pack, cmp, build, check>>

VectorTypeCreate == \E shape \in VectorShapes : TypeCreate("vec", shape)
MatrixTypeCreate == \E shape \in MatrixShapes : TypeCreate("mat", shape)
ArrayTypeCreate == \E shape \in ArrayShapes(types) : TypeCreate("array", shape)
NewVectorValue == \E shape \in VectorShapes : NewValue("vec", shape)
NewMatrixValue == \E shape \in MatrixShapes : NewValue("mat", shape)
NewArrayValue == \E shape \in ArrayShapes(types) : NewValue("array", shape)

NextTypes ==
    \/ VectorTypeCreate \/ MatrixTypeCreate \/ ArrayTypeCreate
    \/ NewVectorValue \/ NewMatrixValue \/ NewArrayValue

SpecTypes == InitTypes /\ [][NextTypes]_vars

\* C22: after any sequence of VectorType.create, MatrixType.create and
\* ArrayType.create calls, two calls returned the same descriptor instance iff
\* they were given the same shape (element type and width, columns and rows,
\* or count); a value constructed later carries as its type the instance
\* those calls return for its shape.
C22_DescriptorsInternedByShape ==
    /\ \A c1 \in types.calls, c2 \in types.calls :
          (c1.id = c2.id) <=> (c1.class = c2.class /\ c1.shape = c2.shape)
    /\ \A v \in types.values, c \in types.calls :
          (v.type = c.id) <=> (v.class = c.class /\ v.shape = c.shape)

\* two create calls with different shapes, a repeated one among the values,
\* have been made
C22_Witness ==
    /\ \E c1 \in types.calls, c2 \in types.calls : c1.id # c2.id
    /\ \E v \in types.values, c \in types.calls : v.type = c.id
    /\ \E c \in types.calls : c.class = "array" /\ c.shape.elem.kind = "desc"

(***************************************************************************)
(* checkExpectation of submitBatch and the comparator of a packed case.    *)
(* The values compare() is given carry numbers; the buffer holds bit       *)
(* patterns.  A number below 256 is encoded as the little-endian bytes of  *)
(* that integer, and a bit pattern decoded as the integer it spells.       *)
(***************************************************************************)
BitsOf(kind, x) == [k \in 1..KindSize(kind) |-> IF k = 1 THEN x ELSE 0]

RECURSIVE NumberOf(_)
NumberOf(bits) == IF bits = <<>> THEN 0 ELSE bits[1] + (256 * NumberOf(Tail(bits)))

\* the value the shader stores, as the bytes of the codec
ScalarEncoded(v) == [type |-> v.type, bits |-> BitsOf(v.type.kind, v.value)]
Encoded(v) ==
    CASE v.type.tag = "scalar" -> ScalarEncoded(v)
      [] v.type.tag = "vec" ->
            [type |-> v.type,
             elements |-> [k \in 1..Len(v.elements) |-> ScalarEncoded(v.elements[k])]]
      [] v.type.tag = "mat" ->
            [type |-> v.type,
             elements |-> [c \in 1..Len(v.elements) |->
                             [r \in 1..Len(v.elements[c]) |->
                                 ScalarEncoded(v.elements[c][r])]]]

\* the value a read returns, as compare() sees it
ScalarDecoded(c) == [type |-> c.type, value |-> NumberOf(c.bits)]
Decoded(c) ==
    CASE c.type.tag = "scalar" -> ScalarDecoded(c)
      [] c.type.tag = "vec" ->
            [type |-> c.type,
             elements |-> [k \in 1..Len(c.elements) |-> ScalarDecoded(c.elements[k])]]
      [] c.type.tag = "mat" ->
            [type |-> c.type,
             elements |-> [a \in 1..Len(c.elements) |->
                             [r \in 1..Len(c.elements[a]) |->
                                 ScalarDecoded(c.elements[a][r])]]]

ZeroWorkingData == [k \in 1..8 |-> 0]

\* the output buffer after the dispatch: outputs[i].value of the shader's
\* array<Output, n> holds the result of case i, at i * stride of the Output struct
RECURSIVE storeOutputs(_, _, _, _)
storeOutputs(results, k, buf, stride) ==
    IF k > Len(results)
    THEN buf
    ELSE CHOOSE done \in
             {storeOutputs(results, k + 1, b, stride) :
                 b \in {CopyTo(Encoded(results[k]),
                               [buf |-> buf, wd |-> ZeroWorkingData],
                               (k - 1) * stride).buf}} : TRUE

\* the comparator packScalarsToVector gives a packed case: component i of got is
\* given to cmp_impls[i], and matched is the conjunction of theirs
RECURSIVE packedCompareLoop(_, _, _, _)
packedCompareLoop(cmp_impls, got, k, acc) ==
    IF k > Len(cmp_impls)
    THEN acc
    ELSE LET d == comparatorCompare(cmp_impls[k], got.elements[k])
         IN  IF d.thrown
             THEN Thrown
             ELSE packedCompareLoop(cmp_impls, got, k + 1,
                                    Comparison(acc.matched /\ d.matched,
                                               acc.expected \o d.expected))

\* a slip the packed comparator could have: only the first component decides
packedCompareFirstOnly(cmp_impls, got) ==
    comparatorCompare(cmp_impls[1], got.elements[1])

packedCompare(cmp_impls, got) ==
    packedCompareLoop(cmp_impls, got, 1, Comparison(TRUE, <<>>))

\* toComparator(c.expected).compare(got) for every expectation a case can carry
toComparatorCompare(expected, got) ==
    IF "cmp_impls" \in DOMAIN expected
    THEN packedCompare(expected.cmp_impls, got)
    ELSE comparatorCompare(expected, got)

\* the loop of checkExpectation over the cases: one entry of errs per case
\* whose Comparison is not matched; a compare that throws ends the check
RECURSIVE checkLoop(_, _, _, _)
checkLoop(cases, outputs, caseIdx, errs) ==
    IF caseIdx > Len(cases)
    THEN [thrown |-> FALSE, error |-> errs # <<>>, errs |-> errs, outputs |-> outputs]
    ELSE LET c == cases[caseIdx]
             got == outputs[caseIdx]
             d == toComparatorCompare(c.expected, got)
         IN  IF d.thrown
             THEN [thrown |-> TRUE, error |-> FALSE, errs |-> errs, outputs |-> outputs]
             ELSE checkLoop(cases, outputs, caseIdx + 1,
                            IF d.matched
                            THEN errs
                            ELSE Append(errs, [input |-> c.input, returned |-> got,
                                               expected |-> d.expected]))

\* checkExpectation(outputData) of the function submitBatch returns
checkExpectation(resultType, cases, outputData) ==
    LET outputStride == structStride(<<resultType>>, "storage_rw")
        outputs == [k \in 1..Len(cases) |->
                       Decoded(Read(resultType,
                                    [buf |-> outputData, wd |-> ZeroWorkingData],
                                    (k - 1) * outputStride).value)]
    IN  checkLoop(cases, outputs, 1, <<>>)

(***************************************************************************)
(* SpecCheck: the output of a batch of up to MaxCheckCases cases of one    *)
(* result type is checked, and the comparator of a packed case is applied  *)
(* to an observed vector.                                                  *)
(***************************************************************************)
UnitInterval == [begin |-> 0, end |-> 1]
FiveInterval == [begin |-> 5, end |-> 5]

\* per result type: the results the shader may store and the expectations
ScalarOutcomes ==
    {[result |-> ScalarValue("f32", x), expected |-> e] :
        x \in Numbers,
        e \in {IntervalExpectation(UnitInterval), IntervalExpectation(FiveInterval),
               ValueExpectation(ScalarValue("f32", 1)), AlwaysPassExpectation}}
VectorOutcomes ==
    {[result |-> VecValue("f32", xs), expected |-> e] :
        xs \in {<<0, 1, 5>>, <<1, 1, 1>>, <<5, 5, 5>>},
        e \in {ListExpectation(<<UnitInterval, UnitInterval, UnitInterval>>),
               ListExpectation(<<FiveInterval, FiveInterval, FiveInterval>>),
               ValueExpectation(VecValue("f32", <<1, 1, 1>>))}}
MatrixOutcomes ==
    {[result |-> MatValue("f32", cols), expected |-> e] :
        cols \in {<<<<0, 1>>, <<1, 1>>>>, <<<<5, 5>>, <<5, 5>>>>},
        e \in {GridExpectation(<<<<UnitInterval, UnitInterval>>,
                                 <<UnitInterval, UnitInterval>>>>),
               GridExpectation(<<<<UnitInterval, UnitInterval, UnitInterval>>,
                                 <<UnitInterval, UnitInterval, UnitInterval>>>>),
               ValueExpectation(MatValue("f32", <<<<0, 1>>, <<1, 1>>>>))}}

\* a batch of one result type: case j has the input j and one of the outcomes
BatchOf(resultType, outcomes) ==
    LET n == Len(outcomes)
        results == [j \in 1..n |-> outcomes[j].result]
        outputStride == structStride(<<resultType>>, "storage_rw")
    IN  [phase |-> "input", op |-> "batch", resultType |-> resultType,
         cases |-> [j \in 1..n |-> [input |-> <<ScalarValue("f32", j)>>,
                                    expected |-> outcomes[j].expected]],
         results |-> results,
         outputData |-> storeOutputs(results, 1,
                                     [k \in 1..Align(n * outputStride, 4) |-> 0],
                                     outputStride)]

BatchesOf(resultType, Outcomes) ==
    \E n \in 0..MaxCheckCases : \E outcomes \in [1..n -> Outcomes] :
        check = BatchOf(resultType, outcomes)

\* the scalar cases that are packed, the packed case looked at and the vector
\* observed for it
PackedInputs ==
    \E n \in 1..(MaxCheckCases + 1), vectorWidth \in 2..4 :
        \E es \in [1..n -> {IntervalExpectation(UnitInterval),
                            IntervalExpectation(FiveInterval),
                            ValueExpectation(ScalarValue("f32", 1))}],
           j \in 0..(CeilDiv(n, vectorWidth) - 1),
           xs \in [1..vectorWidth -> {0, 1, 5}] :
            check = [phase |-> "input", op |-> "packed",
                     cases |-> [c \in 1..n |-> [input |-> <<ScalarValue("f32", c)>>,
                                                expected |-> es[c]]],
                     vectorWidth |-> vectorWidth, j |-> j,
                     got |-> VecValue("f32", xs)]

InitCheck ==
    /\ \/ BatchesOf(ScalarT("f32"), ScalarOutcomes)
       \/ BatchesOf(VecT(3, "f32"), VectorOutcomes)
       \/ BatchesOf(MatT(2, 2, "f32"), MatrixOutcomes)
       \/ PackedInputs
    /\ cfg = Idle /\ pc = "idle" /\ i = 0 /\ casesPerBatch = 0
    /\ batchesInFlight = 0 /\ resolvePromiseBlockingBatch = FALSE
    /\ pendingBatches = <<>> /\ microtasks = <<>> /\ pipelineCache = {}
    /\ device = Idle /\ usageError = FALSE
    /\ lay = Idle /\ codec = Idle /\ pack = Idle /\ cmp = Idle /\ build = Idle
    /\ types = Idle

\* the check of the output buffer of a batch
CheckExpectation ==
    /\ check.phase = "input" /\ check.op = "batch"
    /\ check' = [check EXCEPT !.phase = "done"]
                    @@ [result |-> checkExpectation(check.resultType, check.cases,
                                                    check.outputData)]
    /\ UNCHANGED <<schedVars, lay, codec, pack, cmp, build, types>>

\* packScalarsToVector, then the comparator of packed case j on the observed vector
PackedCompare ==
    /\ check.phase = "input" /\ check.op = "packed"
    /\ LET packed == packScalarsToVector(<<ScalarT("f32")>>, ScalarT("f32"),
                                         check.cases, check.vectorWidth)
       IN  check' = [check EXCEPT !.phase = "done"]
                        @@ [result |-> toComparatorCompare(
                                           packed.cases[check.j + 1].expected,
                                           check.got)]
    /\ UNCHANGED <<schedVars, lay, codec, pack, cmp, build, types>>

NextCheck == CheckExpectation \/ PackedCompare

SpecCheck == InitCheck /\ [][NextCheck]_vars

\* C26: the comparator of packed case j of width w reports matched iff each
\* of the w per-case comparators matches its component of the observed vector,
\* component i being checked against the expectation of source case
\* min(j*w + i, k-1); a mismatch in one component makes the packed case fail.
C26_PackedMatchedIffEveryComponentMatches ==
    (check.phase = "done" /\ check.op = "packed") =>
        LET w == check.vectorWidth
            k == Len(check.cases)
            source(c) == check.cases[Min((check.j * w) + c, k - 1) + 1]
        IN  /\ ~check.result.thrown
            /\ check.result.matched <=>
                  \A c \in 0..(w - 1) :
                      comparatorCompare(source(c).expected,
                                        check.got.elements[c + 1]).matched

\* C26 witness: the last packed case, whose trailing components repeat the
\* last source case, has been compared with a vector of which the first
\* component matches and a repeated one does not, and is unmatched.
C26_Witness ==
    /\ check.phase = "done" /\ check.op = "packed"
    /\ Len(check.cases) = 3 /\ check.vectorWidth = 2 /\ check.j = 1
    /\ comparatorCompare(check.cases[3].expected, check.got.elements[1]).matched
    /\ ~comparatorCompare(check.cases[3].expected, check.got.elements[2]).matched
    /\ ~check.result.matched

\* the cases of the checked batch whose stored result does not match their
\* own expectation
Unmatched ==
    {j \in 1..Len(check.cases) :
        ~toComparatorCompare(check.cases[j].expected, check.results[j]).matched}

\* C27: when the output of a batch is checked, case i is decoded from byte
\* offset i * outputStride and compared with its own expectation; the check
\* yields one error iff at least one case is unmatched, with exactly one
\* diagnostic entry per unmatched case and none for a matched one, and no
\* error when all cases match.
C27_Original ==
    (check.phase = "done" /\ check.op = "batch") =>
        /\ ~check.result.thrown
        /\ check.result.outputs = check.results
        /\ check.result.error <=> Unmatched # {}
        /\ \A j \in 1..Len(check.cases) :
              Cardinality({k \in 1..Len(check.result.errs) :
                              check.result.errs[k].input = check.cases[j].input})
                  = IF j \in Unmatched THEN 1 ELSE 0
====
